---- MODULE Spec2Model ----
(***************************************************************************)
(* Sustainability & Economic Performance pipeline: data preparation        *)
(* (src/src/data_preparation.py), country selection                        *)
(* (src/src/country_selection.py), fixed-effects regression dataset        *)
(* (src/src/FE_regression.py) and the driver (src/main.py).                *)
(*                                                                         *)
(* Tables are sequences of records (one record per row, in row order).     *)
(* Text that the code inspects (indicator names, column headers, raw cell  *)
(* text) is a sequence of one-character strings; text that is only         *)
(* compared for equality (country names, codes, regions) is a string.      *)
(* A missing text cell is the empty text, as in a CSV file; a missing      *)
(* number is the empty tuple and a present number n is <<n>>.              *)
(***************************************************************************)
EXTENDS Integers, Sequences, FiniteSets, TLC

VARIABLES
    pc,                     \* position of the modelled call or run
    args,                   \* arguments of the call in progress
    ret,                    \* value returned by the call
    exc,                    \* exception raised ("" when none)
    disk,                   \* files under data/ and results/: path -> content
    io_log,                 \* file reads and writes of the run, in program order
    SELECTED_COUNTRY_NAMES  \* country_selection.SELECTED_COUNTRY_NAMES (module global)

vars == <<pc, args, ret, exc, disk, io_log, SELECTED_COUNTRY_NAMES>>

(***************************************************************************)
(* Bounds of the model.                                                    *)
(***************************************************************************)
\* indicator names are built from at most MaxWords fragments of Words
MaxWords == 2
\* the panels given to the country selection have at most MaxSelectRows rows
MaxSelectRows == 3
\* the raw wide tables have at most MaxRawRows rows
MaxRawRows == 2
\* the long tables given to the merge have at most MaxLongRows rows each
MaxLongRows == 2
\* the 50-country panels given to the regression builder have at most
\* MaxRegRows rows
MaxRegRows == 4
\* the regression datasets given to the fit have at most MaxFeRows rows
MaxFeRows == 2

(***************************************************************************)
(* Missing values.                                                         *)
(***************************************************************************)
\* a missing string cell (pandas NaN in an object column; empty CSV field)
NaN == ""
\* a missing text cell, for text kept as a character sequence
NaNText == <<>>
\* a missing number (float NaN); a present number n is <<n>>
NA == <<>>

(***************************************************************************)
(* Python string operations on character sequences.                        *)
(***************************************************************************)
UpperCase == <<"A","B","C","D","E","F","G","H","I","J","K","L","M","N","O","P","Q","R","S","T","U","V","W","X","Y","Z">>
LowerCase == <<"a","b","c","d","e","f","g","h","i","j","k","l","m","n","o","p","q","r","s","t","u","v","w","x","y","z">>

\* str.lower() on one character
lower_char(c) ==
    IF \E i \in 1..Len(UpperCase) : UpperCase[i] = c
    THEN LowerCase[CHOOSE i \in 1..Len(UpperCase) : UpperCase[i] = c]
    ELSE c

\* str.lower()
lower(s) == [i \in 1..Len(s) |-> lower_char(s[i])]

\* str(x): a missing value prints as "nan"
str(x) == IF x = NaNText THEN <<"n","a","n">> ELSE x

\* Python's  needle in hay  on strings
contains(needle, hay) ==
    \E i \in 0..(Len(hay) - Len(needle)) :
        SubSeq(hay, i + 1, i + Len(needle)) = needle

(***************************************************************************)
(* data_preparation.py: keywords of the two category functions.            *)
(***************************************************************************)
kw_co2 == <<"c","o","2">>
kw_fossil == <<"f","o","s","s","i","l">>
kw_renewable == <<"r","e","n","e","w","a","b","l","e">>
kw_methane == <<"m","e","t","h","a","n","e">>
kw_nitrous == <<"n","i","t","r","o","u","s">>
kw_unemployment == <<"u","n","e","m","p","l","o","y","m","e","n","t">>
kw_gini == <<"g","i","n","i">>
kw_rights == <<"r","i","g","h","t","s">>
kw_corruption == <<"c","o","r","r","u","p","t","i","o","n">>
kw_political == <<"p","o","l","i","t","i","c","a","l">>
kw_gdp == <<"g","d","p">>
kw_expenditure == <<"e","x","p","e","n","d","i","t","u","r","e">>
kw_inflation == <<"i","n","f","l","a","t","i","o","n">>
kw_foreign_direct_investment == <<"f","o","r","e","i","g","n"," ","d","i","r","e","c","t"," ","i","n","v","e","s","t","m","e","n","t">>
kw_research == <<"r","e","s","e","a","r","c","h">>
kw_r_and_d == <<"r","&","d">>

(***************************************************************************)
(* data_preparation.assign_category                                        *)
(***************************************************************************)
\* the same chain with "gdp" tested before the Environmental keywords
assign_category_gdp_first(indicator_name) ==
    LET indicator_name_lower == lower(str(indicator_name)) IN
    IF contains(kw_gdp, indicator_name_lower) THEN "Economic"
    ELSE IF contains(kw_co2, indicator_name_lower) THEN "Environmental"
    ELSE IF contains(kw_fossil, indicator_name_lower) THEN "Environmental"
    ELSE IF contains(kw_renewable, indicator_name_lower) THEN "Environmental"
    ELSE IF contains(kw_methane, indicator_name_lower) THEN "Environmental"
    ELSE IF contains(kw_nitrous, indicator_name_lower) THEN "Environmental"
    ELSE IF contains(kw_unemployment, indicator_name_lower) THEN "Social"
    ELSE IF contains(kw_gini, indicator_name_lower) THEN "Social"
    ELSE IF contains(kw_rights, indicator_name_lower) THEN "Social"
    ELSE IF contains(kw_corruption, indicator_name_lower) THEN "Governance"
    ELSE IF contains(kw_political, indicator_name_lower) THEN "Governance"
    ELSE IF contains(kw_expenditure, indicator_name_lower) THEN "Economic"
    ELSE "Other"

\* the same chain on the name as it is written, not lowered
assign_category_case_sensitive(indicator_name) ==
    LET indicator_name_lower == str(indicator_name) IN
    \* Environmental
    IF contains(kw_co2, indicator_name_lower) THEN "Environmental"
    ELSE IF contains(kw_fossil, indicator_name_lower) THEN "Environmental"
    ELSE IF contains(kw_renewable, indicator_name_lower) THEN "Environmental"
    ELSE IF contains(kw_methane, indicator_name_lower) THEN "Environmental"
    ELSE IF contains(kw_nitrous, indicator_name_lower) THEN "Environmental"
    \* Social
    ELSE IF contains(kw_unemployment, indicator_name_lower) THEN "Social"
    ELSE IF contains(kw_gini, indicator_name_lower) THEN "Social"
    ELSE IF contains(kw_rights, indicator_name_lower) THEN "Social"
    \* Governance
    ELSE IF contains(kw_corruption, indicator_name_lower) THEN "Governance"
    ELSE IF contains(kw_political, indicator_name_lower) THEN "Governance"
    \* Economic
    ELSE IF contains(kw_gdp, indicator_name_lower) THEN "Economic"
    ELSE IF contains(kw_expenditure, indicator_name_lower) THEN "Economic"
    ELSE "Other"

assign_category(indicator_name) ==
    LET indicator_name_lower == lower(str(indicator_name)) IN
    \* Environmental
    IF contains(kw_co2, indicator_name_lower) THEN "Environmental"
    ELSE IF contains(kw_fossil, indicator_name_lower) THEN "Environmental"
    ELSE IF contains(kw_renewable, indicator_name_lower) THEN "Environmental"
    ELSE IF contains(kw_methane, indicator_name_lower) THEN "Environmental"
    ELSE IF contains(kw_nitrous, indicator_name_lower) THEN "Environmental"
    \* Social
    ELSE IF contains(kw_unemployment, indicator_name_lower) THEN "Social"
    ELSE IF contains(kw_gini, indicator_name_lower) THEN "Social"
    ELSE IF contains(kw_rights, indicator_name_lower) THEN "Social"
    \* Governance
    ELSE IF contains(kw_corruption, indicator_name_lower) THEN "Governance"
    ELSE IF contains(kw_political, indicator_name_lower) THEN "Governance"
    \* Economic
    ELSE IF contains(kw_gdp, indicator_name_lower) THEN "Economic"
    ELSE IF contains(kw_expenditure, indicator_name_lower) THEN "Economic"
    ELSE "Other"

(***************************************************************************)
(* data_preparation.assign_economic_category                               *)
(***************************************************************************)
assign_economic_category(indicator_name) ==
    LET indicator_name_lower == lower(str(indicator_name)) IN
    IF contains(kw_gdp, indicator_name_lower) THEN "Economic"
    ELSE IF contains(kw_inflation, indicator_name_lower) THEN "Economic"
    ELSE IF contains(kw_foreign_direct_investment, indicator_name_lower) THEN "Economic"
    ELSE IF contains(kw_research, indicator_name_lower)
            \/ contains(kw_r_and_d, indicator_name_lower) THEN "Economic"
    ELSE "Other"

(***************************************************************************)
(* Inputs of the category functions: names made of at most MaxWords        *)
(* fragments (keywords in mixed case, parts of keywords, other text), and  *)
(* the missing name.                                                       *)
(***************************************************************************)
Words == {
    <<"C","O","2"," ">>,
    <<"c","o">>,
    <<"F","o","s","s","i","l">>,
    <<"r","e","n","e","w","a","b","l","e">>,
    <<"M","e","t","h","a","n","e">>,
    <<"N","I","T","R","O","U","S">>,
    <<"U","n","e","m","p","l","o","y","m","e","n","t">>,
    <<"G","i","n","i">>,
    <<"r","i","g","h","t","s">>,
    <<"r","i","g","h","t">>,
    <<"C","o","r","r","u","p","t","i","o","n">>,
    <<"P","o","l","i","t","i","c","a","l">>,
    <<"G","D","P">>,
    <<"g">>,
    <<"d","p">>,
    <<"E","x","p","e","n","d","i","t","u","r","e">>,
    <<" ","i","n","d","e","x">>,
    <<"I","n","f","l","a","t","i","o","n">>,
    <<"R","&","D">>
}

RECURSIVE NamesOf(_)
NamesOf(n) ==
    IF n = 0 THEN {<<>>}
    ELSE LET shorter == NamesOf(n - 1) IN
         shorter \cup {s \o w : s \in shorter, w \in Words}

IndicatorNames == NamesOf(MaxWords)

(***************************************************************************)
(* FE_regression.py: the indicator names of ESG_MAP and ECON_INDICATORS,   *)
(* character by character.                                                 *)
(***************************************************************************)
\* "CO2 emissions (metric tons per capita)"
IND_CO2 ==
    <<"C","O","2"," ","e","m","i","s","s","i","o","n","s"," ","(","m","e","t","r","i","c"," ","t","o","n","s"," ","p","e","r"," ","c","a","p","i","t","a",")">>
\* "Methane emissions (metric tons of CO2 equivalent per capita)"
IND_METHANE ==
    <<"M","e","t","h","a","n","e"," ","e","m","i","s","s","i","o","n","s"," ","(","m","e","t","r","i","c"," ","t","o","n","s"," ","o","f"," ","C","O","2"," ","e","q","u","i","v","a","l","e","n","t"," ","p","e","r"," ","c","a","p","i","t","a",")">>
\* "Nitrous oxide emissions (metric tons of CO2 equivalent per capita)"
IND_NITROUS ==
    <<"N","i","t","r","o","u","s"," ","o","x","i","d","e"," ","e","m","i","s","s","i","o","n","s"," ","(","m","e","t","r","i","c"," ","t","o","n","s"," ","o","f"," ","C","O","2"," ","e","q","u","i","v","a","l","e","n","t"," ","p","e","r"," ","c","a","p","i","t","a",")">>
\* "Fossil fuel energy consumption (% of total)"
IND_FOSSIL ==
    <<"F","o","s","s","i","l"," ","f","u","e","l"," ","e","n","e","r","g","y"," ","c","o","n","s","u","m","p","t","i","o","n"," ","(","%"," ","o","f"," ","t","o","t","a","l",")">>
\* "Renewable energy consumption (% of total final energy consumption)"
IND_RENEWABLE_ENERGY ==
    <<"R","e","n","e","w","a","b","l","e"," ","e","n","e","r","g","y"," ","c","o","n","s","u","m","p","t","i","o","n"," ","(","%"," ","o","f"," ","t","o","t","a","l"," ","f","i","n","a","l"," ","e","n","e","r","g","y"," ","c","o","n","s","u","m","p","t","i","o","n",")">>
\* "Renewable electricity output (% of total electricity output)"
IND_RENEWABLE_ELECTRICITY ==
    <<"R","e","n","e","w","a","b","l","e"," ","e","l","e","c","t","r","i","c","i","t","y"," ","o","u","t","p","u","t"," ","(","%"," ","o","f"," ","t","o","t","a","l"," ","e","l","e","c","t","r","i","c","i","t","y"," ","o","u","t","p","u","t",")">>
\* "Unemployment, total (% of total labor force) (modeled ILO estimate)"
IND_UNEMPLOYMENT ==
    <<"U","n","e","m","p","l","o","y","m","e","n","t",","," ","t","o","t","a","l"," ","(","%"," ","o","f"," ","t","o","t","a","l"," ","l","a","b","o","r"," ","f","o","r","c","e",")"," ","(","m","o","d","e","l","e","d"," ","I","L","O"," ","e","s","t","i","m","a","t","e",")">>
\* "Gini index"
IND_GINI ==
    <<"G","i","n","i"," ","i","n","d","e","x">>
\* "Economic and Social Rights Performance Score"
IND_RIGHTS ==
    <<"E","c","o","n","o","m","i","c"," ","a","n","d"," ","S","o","c","i","a","l"," ","R","i","g","h","t","s"," ","P","e","r","f","o","r","m","a","n","c","e"," ","S","c","o","r","e">>
\* "Control of Corruption: Estimate"
IND_CORRUPTION ==
    <<"C","o","n","t","r","o","l"," ","o","f"," ","C","o","r","r","u","p","t","i","o","n",":"," ","E","s","t","i","m","a","t","e">>
\* "Political Stability and Absence of Violence/Terrorism: Estimate"
IND_POLITICAL ==
    <<"P","o","l","i","t","i","c","a","l"," ","S","t","a","b","i","l","i","t","y"," ","a","n","d"," ","A","b","s","e","n","c","e"," ","o","f"," ","V","i","o","l","e","n","c","e","/","T","e","r","r","o","r","i","s","m",":"," ","E","s","t","i","m","a","t","e">>
\* "GDP growth (annual %)"
IND_GDP_GROWTH ==
    <<"G","D","P"," ","g","r","o","w","t","h"," ","(","a","n","n","u","a","l"," ","%",")">>
\* "GDP per capita (constant 2015 US$)"
IND_GDP_PER_CAPITA ==
    <<"G","D","P"," ","p","e","r"," ","c","a","p","i","t","a"," ","(","c","o","n","s","t","a","n","t"," ","2","0","1","5"," ","U","S","$",")">>
\* "Inflation, consumer prices (annual %)"
IND_INFLATION ==
    <<"I","n","f","l","a","t","i","o","n",","," ","c","o","n","s","u","m","e","r"," ","p","r","i","c","e","s"," ","(","a","n","n","u","a","l"," ","%",")">>
\* "Foreign direct investment, net inflows (% of GDP)"
IND_FDI ==
    <<"F","o","r","e","i","g","n"," ","d","i","r","e","c","t"," ","i","n","v","e","s","t","m","e","n","t",","," ","n","e","t"," ","i","n","f","l","o","w","s"," ","(","%"," ","o","f"," ","G","D","P",")">>
\* "Research and development expenditure (% of GDP)"
IND_RD ==
    <<"R","e","s","e","a","r","c","h"," ","a","n","d"," ","d","e","v","e","l","o","p","m","e","n","t"," ","e","x","p","e","n","d","i","t","u","r","e"," ","(","%"," ","o","f"," ","G","D","P",")">>

\* ESG map (category + direction): +1 higher is better, -1 higher is worse
ESG_MAP ==
    (IND_CO2 :> [category |-> "E", direction |-> -1]) @@
    (IND_METHANE :> [category |-> "E", direction |-> -1]) @@
    (IND_NITROUS :> [category |-> "E", direction |-> -1]) @@
    (IND_FOSSIL :> [category |-> "E", direction |-> -1]) @@
    (IND_RENEWABLE_ENERGY :> [category |-> "E", direction |-> 1]) @@
    (IND_RENEWABLE_ELECTRICITY :> [category |-> "E", direction |-> 1]) @@
    (IND_UNEMPLOYMENT :> [category |-> "S", direction |-> -1]) @@
    (IND_GINI :> [category |-> "S", direction |-> -1]) @@
    (IND_RIGHTS :> [category |-> "S", direction |-> 1]) @@
    (IND_CORRUPTION :> [category |-> "G", direction |-> 1]) @@
    (IND_POLITICAL :> [category |-> "G", direction |-> 1])

ECON_INDICATORS == <<IND_GDP_GROWTH, IND_GDP_PER_CAPITA, IND_INFLATION, IND_FDI, IND_RD>>

(***************************************************************************)
(* country_selection.py: the literal that initialises the module global    *)
(* SELECTED_COUNTRY_NAMES.                                                 *)
(***************************************************************************)
SELECTED_COUNTRY_NAMES_literal == <<
    "United States", "Canada", "India", "Sri Lanka", "Nepal",
    "Bangladesh", "Maldives", "Bhutan", "Israel", "Iran, Islamic Rep.",
    "Egypt, Arab Rep.", "Tunisia", "Saudi Arabia", "Pakistan", "Algeria",
    "Brazil", "Colombia", "Mexico", "Costa Rica", "Uruguay",
    "Chile", "Honduras", "Bolivia", "Dominican Republic", "Peru",
    "Japan", "Korea, Rep.", "Australia", "China", "Indonesia",
    "Viet Nam", "Philippines", "Cambodia", "South Africa", "Mauritius",
    "Nigeria", "Ghana", "Kenya", "Madagascar", "Rwanda",
    "Burkina Faso", "Germany", "France", "United Kingdom", "Poland",
    "Romania", "Hungary", "Georgia", "Kazakhstan", "Uzbekistan"
>>

(***************************************************************************)
(* Files of the pipeline.                                                  *)
(***************************************************************************)
FILE_ESG == "data/raw/esg-economic-data.csv"
FILE_GDP == "data/raw/gdp-inflation-fdi-data.csv"
FILE_CLASS == "data/raw/country-classification.xlsx"
FILE_FULL_PANEL == "data/processed/panel_full_unfiltered.csv"
FILE_PANEL_50 == "data/processed/panel_50_countries.csv"
FE_DATASET_PATH == "data/processed/panel_FE_regression.csv"
FE_TABLE_TEX_PATH == "results/regression/fixed_effects_regression.tex"

\* PROCESSED_DIR, relative to PROJECT_ROOT, and PROCESSED_DIR / filename
PROCESSED_DIR == "data/processed/"
out_path(filename) == PROCESSED_DIR \o filename

Files == {FILE_ESG, FILE_GDP, FILE_CLASS, FILE_FULL_PANEL, FILE_PANEL_50,
          FE_DATASET_PATH, FE_TABLE_TEX_PATH}

\* a path with no file
Absent == [exists |-> FALSE]
NoFiles == [f \in Files |-> Absent]

(***************************************************************************)
(* Tables.  A panel row has the nine columns of the full panel.            *)
(***************************************************************************)
PanelRow(name, code, indicator, year, value, category, source, region, income) ==
    [Country_Name |-> name, Country_Code |-> code, Indicator |-> indicator,
     Year |-> year, Value |-> value, Category |-> category, Source |-> source,
     Region |-> region, Income_Group |-> income]

\* all sequences of at most n elements of S
SeqsUpTo(S, n) == UNION {[1..k -> S] : k \in 0..n}

\* Series.isin(values), values a list
isin(x, values) == \E i \in 1..Len(values) : values[i] = x

\* Series.nunique() of the Country Name column: missing names do not count
nunique(df) == Cardinality({df[i].Country_Name : i \in 1..Len(df)} \ {NaN})

\* an optional argument: None, or <<v>> when v is passed
None == <<>>

(***************************************************************************)
(* CSV files: DataFrame.to_csv(index=False) and pandas.read_csv.           *)
(* A file holds text; numbers are written in decimal and parsed back.      *)
(***************************************************************************)
Digits == <<"0","1","2","3","4","5","6","7","8","9">>

is_digit(c) == \E d \in 1..Len(Digits) : Digits[d] = c
digit_value(c) == (CHOOSE d \in 1..Len(Digits) : Digits[d] = c) - 1
is_digits(s) == Len(s) > 0 /\ \A i \in 1..Len(s) : is_digit(s[i])

RECURSIVE digits_value(_)
digits_value(s) ==
    IF s = <<>> THEN 0
    ELSE 10 * digits_value(SubSeq(s, 1, Len(s) - 1)) + digit_value(s[Len(s)])

RECURSIVE digits_of(_)
digits_of(n) ==
    IF n < 10 THEN <<Digits[n + 1]>>
    ELSE digits_of(n \div 10) \o <<Digits[(n % 10) + 1]>>

\* an int64 cell as to_csv writes it
fmt_int(n) == IF n < 0 THEN <<"-">> \o digits_of(-n) ELSE digits_of(n)

\* a float64 cell as to_csv writes it: empty when missing, "3.0" for 3
fmt_float(v) == IF v = NA THEN <<>> ELSE fmt_int(v[1]) \o <<".", "0">>

\* text that reads as a whole number: [-]digits, or [-]digits.0...0
unsigned_part(s) == IF Len(s) > 0 /\ s[1] = "-" THEN SubSeq(s, 2, Len(s)) ELSE s
point_at(s) ==
    IF \E i \in 1..Len(s) : s[i] = "."
    THEN CHOOSE i \in 1..Len(s) : s[i] = "." /\ \A j \in 1..(i - 1) : s[j] # "."
    ELSE Len(s) + 1
whole_part(s) == SubSeq(unsigned_part(s), 1, point_at(unsigned_part(s)) - 1)
fraction_part(s) == SubSeq(unsigned_part(s), point_at(unsigned_part(s)) + 1, Len(unsigned_part(s)))
is_number_text(s) ==
    /\ is_digits(whole_part(s))
    /\ \A i \in 1..Len(fraction_part(s)) : fraction_part(s)[i] = "0"
number_value(s) ==
    IF Len(s) > 0 /\ s[1] = "-" THEN 0 - digits_value(whole_part(s))
    ELSE digits_value(whole_part(s))

\* pandas.to_numeric(errors="coerce") on one cell: a number, or missing for
\* an empty cell and for text that is no number (the model's numbers are
\* whole: text with a non-zero fraction is not among its inputs)
to_numeric(s) == IF is_number_text(s) THEN <<number_value(s)>> ELSE NA

\* DataFrame.to_csv(index=False) of a panel
to_csv(df) ==
    [exists |-> TRUE,
     rows |-> [i \in 1..Len(df) |->
                 [df[i] EXCEPT !.Year = fmt_int(df[i].Year),
                               !.Value = fmt_float(df[i].Value)]]]

\* pandas.read_csv of a panel file
read_csv(file) ==
    [i \in 1..Len(file.rows) |->
        [file.rows[i] EXCEPT !.Year = number_value(file.rows[i].Year),
                             !.Value = to_numeric(file.rows[i].Value)]]

\* one entry of io_log: a file read or written with its row count, or a
\* printed diagnostic
IoEvent(op, path, n) == [op |-> op, path |-> path, n |-> n]

(***************************************************************************)
(* Raw wide tables (ESG or economic), as read from the raw CSV files:      *)
(* columns lists the headers after the four leading columns Country Name,  *)
(* Country Code, Series Name, Series Code; each row holds the four         *)
(* leading cells and one cell text per header of columns.                  *)
(***************************************************************************)
RawRow(name, code, series_name, series_code, cells) ==
    [Country_Name |-> name, Country_Code |-> code, Series_Name |-> series_name,
     Series_Code |-> series_code, cells |-> cells]

\* a long observation: the seven columns of common_cols
LongRow(name, code, indicator, year, value, category, source) ==
    [Country_Name |-> name, Country_Code |-> code, Indicator |-> indicator,
     Year |-> year, Value |-> value, Category |-> category, Source |-> source]

\* the columns whose header contains "[": positions in columns
year_cols(columns) == SelectSeq([c \in 1..Len(columns) |-> c],
                                LAMBDA c : contains(<<"[">>, columns[c]))

\* str.slice(0, 4)
slice_0_4(s) == SubSeq(s, 1, IF Len(s) < 4 THEN Len(s) ELSE 4)

\* DataFrame.melt that leaves out the cells with no value
melt_dropping_missing(df, value_vars) ==
    LET n == Len(df.rows)
        all == [k \in 1..(n * Len(value_vars)) |->
                  LET c == value_vars[((k - 1) \div n) + 1]
                      row == df.rows[((k - 1) % n) + 1]
                  IN  [Country_Name |-> row.Country_Name,
                       Country_Code |-> row.Country_Code,
                       Series_Name |-> row.Series_Name,
                       Year |-> df.columns[c],
                       Value |-> row.cells[c]]]
    IN  SelectSeq(all, LAMBDA r : r.Value # NaNText)

\* DataFrame.melt(id_vars=[Country Name, Country Code, Series Name],
\* value_vars, var_name="Year", value_name="Value"): for each column of
\* value_vars in turn, one row per row of df, in the order of df
melt(df, value_vars) ==
    LET n == Len(df.rows) IN
    [k \in 1..(n * Len(value_vars)) |->
        LET c == value_vars[((k - 1) \div n) + 1]
            row == df.rows[((k - 1) % n) + 1]
        IN  [Country_Name |-> row.Country_Name,
             Country_Code |-> row.Country_Code,
             Series_Name |-> row.Series_Name,
             Year |-> df.columns[c],
             Value |-> row.cells[c]]]

(***************************************************************************)
(* data_preparation.clean_esg_dataset                                      *)
(***************************************************************************)
clean_esg_dataset(esg_df) ==
    LET \* reshape the data from wide to long format
        esg_long == melt(esg_df, year_cols(esg_df.columns))
        \* clean Year: keep only 4 digits and convert to int
        sliced == [k \in 1..Len(esg_long) |-> slice_0_4(esg_long[k].Year)]
        \* rename Series Name to Indicator; assign ESG categories
        categorised == [k \in 1..Len(esg_long) |->
            LongRow(esg_long[k].Country_Name, esg_long[k].Country_Code,
                    esg_long[k].Series_Name, digits_value(sliced[k]),
                    esg_long[k].Value, assign_category(esg_long[k].Series_Name),
                    "ESG")]
        \* drop rows where Indicator is NaN
        kept == SelectSeq(categorised, LAMBDA r : r.Indicator # NaNText)
    IN  IF \E k \in 1..Len(sliced) : ~is_digits(sliced[k])
        THEN [exc |-> "ValueError", df |-> <<>>]
        ELSE [exc |-> "", df |-> kept]

(***************************************************************************)
(* data_preparation.clean_gdp_dataset                                      *)
(***************************************************************************)
clean_gdp_dataset(gdp_df) ==
    LET \* reshape dataset from wide to long format
        gdp_long == melt(gdp_df, year_cols(gdp_df.columns))
        \* clean Year and convert to int
        sliced == [k \in 1..Len(gdp_long) |-> slice_0_4(gdp_long[k].Year)]
        \* rename Series Name to Indicator; assign Economic-only categories
        categorised == [k \in 1..Len(gdp_long) |->
            LongRow(gdp_long[k].Country_Name, gdp_long[k].Country_Code,
                    gdp_long[k].Series_Name, digits_value(sliced[k]),
                    gdp_long[k].Value,
                    assign_economic_category(gdp_long[k].Series_Name),
                    "Economic")]
        \* drop rows where Indicator is NaN
        kept == SelectSeq(categorised, LAMBDA r : r.Indicator # NaNText)
    IN  IF \E k \in 1..Len(sliced) : ~is_digits(sliced[k])
        THEN [exc |-> "ValueError", df |-> <<>>]
        ELSE [exc |-> "", df |-> kept]

(***************************************************************************)
(* Exact arithmetic for the means and z-scores.  A rational is <<p, q>>    *)
(* in lowest terms with q > 0; a number cell is <<x>> or NA.               *)
(***************************************************************************)
abs(n) == IF n < 0 THEN 0 - n ELSE n

RECURSIVE gcd(_, _)
gcd(a, b) == IF b = 0 THEN a ELSE gcd(b, a % b)

\* p / q in lowest terms (q # 0)
rat(p, q) ==
    LET g == gcd(abs(p), abs(q))
        s == IF q < 0 THEN 0 - 1 ELSE 1
    IN  <<(s * p) \div g, (s * q) \div g>>

rat_add(a, b) == rat(a[1] * b[2] + b[1] * a[2], a[2] * b[2])
rat_sub(a, b) == rat(a[1] * b[2] - b[1] * a[2], a[2] * b[2])
rat_mul(a, b) == rat(a[1] * b[1], a[2] * b[2])
rat_div(a, b) == rat(a[1] * b[2], a[2] * b[1])
rat_zero == <<0, 1>>

RECURSIVE rat_sum(_)
rat_sum(xs) == IF xs = <<>> THEN rat_zero ELSE rat_add(Head(xs), rat_sum(Tail(xs)))

\* the values present in a column of number cells
present(column) == SelectSeq(column, LAMBDA v : v # NA)

\* Series.mean() (skipna): missing when no value is present
series_mean(column) ==
    LET xs == present(column) IN
    IF xs = <<>> THEN NA
    ELSE <<rat_div(rat_sum([i \in 1..Len(xs) |-> xs[i][1]]), rat(Len(xs), 1))>>

\* Series.std() (skipna, ddof=1), squared: missing with fewer than two
\* values present
series_var(column) ==
    LET xs == present(column)
        n == Len(xs)
        m == series_mean(column)[1]
        squares == [i \in 1..n |-> rat_mul(rat_sub(xs[i][1], m), rat_sub(xs[i][1], m))]
    IN  IF n < 2 THEN NA ELSE <<rat_div(rat_sum(squares), rat(n - 1, 1))>>

\* (x - x.mean()) / x.std() for one cell x of the column: the real number
\* coef * sqrt(rad) with coef = x - mean and rad = 1 / std^2, kept exact;
\* missing when x is missing, when std is missing and when std = 0 (0/0)
zscore(x, column) ==
    IF x = NA \/ series_var(column) = NA THEN NA
    ELSE IF series_var(column)[1] = rat_zero THEN NA
    ELSE <<[coef |-> rat_sub(x[1], series_mean(column)[1]),
            rad |-> rat_div(rat(1, 1), series_var(column)[1])]>>

\* Series.mean() (skipna) of a column of z-scores: the sum of the terms
\* coef * sqrt(rad) over the values present, divided by their number, as
\* the set of its terms of distinct rad with non-zero coef (the empty set
\* is zero); missing when no value is present
zscore_mean(column) ==
    LET zs == present(column)
        rads == {zs[i][1].rad : i \in 1..Len(zs)}
        coef_of(r) ==
            LET same == SelectSeq(zs, LAMBDA z : z[1].rad = r) IN
            rat_div(rat_sum([i \in 1..Len(same) |-> same[i][1].coef]), rat(Len(zs), 1))
    IN  IF zs = <<>> THEN NA
        ELSE <<{[coef |-> coef_of(r), rad |-> r] : r \in {q \in rads : coef_of(q) # rat_zero}}>>

(***************************************************************************)
(* data_preparation.prepare_country_classification                         *)
(***************************************************************************)
\* a row of the raw classification sheet
ClassRawRow(economy, code, region, income_group, lending_category) ==
    [Economy |-> economy, Code |-> code, Region |-> region,
     Income_group |-> income_group, Lending_category |-> lending_category]

\* a row of the cleaned classification table
ClassRow(code, name, region, income) ==
    [Country_Code |-> code, Country_Name |-> name, Region |-> region,
     Income_Group |-> income]

prepare_country_classification(class_df) ==
    [i \in 1..Len(class_df) |->
        ClassRow(class_df[i].Code, class_df[i].Economy, class_df[i].Region,
                 class_df[i].Income_group)]

(***************************************************************************)
(* DataFrame.sort_values on text and number columns.                       *)
(***************************************************************************)
\* the order of the strings that the model sorts by (names, codes, regions,
\* income groups and category labels), as Python compares them
Collation == <<"Bharat", "East Asia & Pacific", "Economic",
               "Environmental", "Governance", "IND", "India", "Kosovo",
               "Low income", "Lower middle income", "NPL", "Nepal",
               "Other", "Social", "South Asia", "VNM", "Viet Nam",
               "Vietnam", "XKX">>

rank(s) == CHOOSE i \in 1..Len(Collation) : Collation[i] = s

\* a sorts before b in a text column; missing values go last
text_before(a, b) ==
    IF a = NaN THEN FALSE ELSE IF b = NaN THEN TRUE ELSE rank(a) < rank(b)

\* row a sorts strictly before row b by (Country Code, Year, Category)
sorts_before(a, b) ==
    \/ text_before(a.Country_Code, b.Country_Code)
    \/ /\ a.Country_Code = b.Country_Code
       /\ \/ a.Year < b.Year
          \/ /\ a.Year = b.Year
             /\ text_before(a.Category, b.Category)

\* body applied to the value of an expression, which is computed once
bind(value, body(_)) == CHOOSE result \in {body(v) : v \in {value}} : TRUE

\* DataFrame.sort_values: a stable sort by the strict order before
sort_by(df, before(_, _)) ==
    LET RECURSIVE insert(_, _)
        insert(t, r) ==
            IF t = <<>> THEN <<r>>
            ELSE IF before(r, Head(t)) THEN <<r>> \o t
            ELSE <<Head(t)>> \o insert(Tail(t), r)
        sort(rows) ==
            LET RECURSIVE sorted(_)
                \* the first n rows, sorted
                sorted(n) ==
                    IF n = 0 THEN <<>>
                    ELSE bind(sorted(n - 1), LAMBDA t : insert(t, rows[n]))
            IN  sorted(Len(rows))
    IN  bind(df, sort)

\* sort_values(["Country Code", "Year", "Category"]).reset_index(drop=True)
sort_values(df) == sort_by(df, sorts_before)

(***************************************************************************)
(* DataFrame.merge(class_clean, on="Country Code", how=...)                *)
(***************************************************************************)
\* a row of the merged table: the long row's columns, its Country Name as
\* Country Name_x, the classification's as Country Name_y
merged_row(long, name_y, region, income) ==
    [Country_Name_x |-> long.Country_Name, Country_Code |-> long.Country_Code,
     Indicator |-> long.Indicator, Year |-> long.Year, Value |-> long.Value,
     Category |-> long.Category, Source |-> long.Source,
     Country_Name_y |-> name_y, Region |-> region, Income_Group |-> income]

\* the classification rows of a country code, in the table's order
class_rows_of(code, class_clean) ==
    SelectSeq(class_clean, LAMBDA c : c.Country_Code = code)

\* how="inner": the long rows with no classification row are left out
RECURSIVE merge_inner_on_country_code(_, _)
merge_inner_on_country_code(all_long, class_clean) ==
    IF all_long = <<>> THEN <<>>
    ELSE LET long == Head(all_long)
             found == class_rows_of(long.Country_Code, class_clean)
         IN  [j \in 1..Len(found) |->
                 merged_row(long, found[j].Country_Name, found[j].Region,
                            found[j].Income_Group)]
             \o merge_inner_on_country_code(Tail(all_long), class_clean)

\* how="left": every long row, once per classification row of its code, and
\* once with missing classification columns when there is none
RECURSIVE merge_left_on_country_code(_, _)
merge_left_on_country_code(all_long, class_clean) ==
    IF all_long = <<>> THEN <<>>
    ELSE LET long == Head(all_long)
             found == class_rows_of(long.Country_Code, class_clean)
         IN  (IF found = <<>> THEN <<merged_row(long, NaN, NaN, NaN)>>
              ELSE [j \in 1..Len(found) |->
                      merged_row(long, found[j].Country_Name, found[j].Region,
                                 found[j].Income_Group)])
             \o merge_left_on_country_code(Tail(all_long), class_clean)

(***************************************************************************)
(* data_preparation.merge_to_panel                                         *)
(***************************************************************************)
merge_to_panel(esg_long, gdp_long, class_clean) ==
    LET \* combine ESG + GDP
        all_long == esg_long \o gdp_long
        \* sort for neatness
        sorted == sort_values(all_long)
        \* merge with the country classification dataset
        panel_long == merge_left_on_country_code(sorted, class_clean)
    IN  \* keep Country Name_x as Country Name, drop Country Name_y, and
        \* convert Value to numeric
        [i \in 1..Len(panel_long) |->
            PanelRow(panel_long[i].Country_Name_x, panel_long[i].Country_Code,
                     panel_long[i].Indicator, panel_long[i].Year,
                     to_numeric(panel_long[i].Value), panel_long[i].Category,
                     panel_long[i].Source, panel_long[i].Region,
                     panel_long[i].Income_Group)]

(***************************************************************************)
(* Grouping: the distinct keys of a table in sorted order, as groupby,     *)
(* pivot and pivot_table give them.                                        *)
(***************************************************************************)
\* the elements of the set keys, in the strict total order before
sorted_keys(keys, before(_, _)) ==
    LET RECURSIVE build(_)
        build(rest) ==
            IF rest = {} THEN <<>>
            ELSE LET first == CHOOSE k \in rest : \A o \in rest : o = k \/ before(k, o)
                 IN  <<first>> \o build(rest \ {first})
    IN  build(keys)

\* keys <<Country Name, Country Code, Year>>: a sorts before b
key3_before(a, b) ==
    \/ text_before(a[1], b[1])
    \/ /\ a[1] = b[1]
       /\ \/ text_before(a[2], b[2])
          \/ a[2] = b[2] /\ a[3] < b[3]

\* keys <<Country Name, Country Code, Year, Region, Income Group>>
key5_before(a, b) ==
    \/ key3_before(a, b)
    \/ /\ a[1] = b[1] /\ a[2] = b[2] /\ a[3] = b[3]
       /\ \/ text_before(a[4], b[4])
          \/ a[4] = b[4] /\ text_before(a[5], b[5])

\* rows sort by (Country Code, Year)
code_year_before(a, b) ==
    \/ text_before(a.Country_Code, b.Country_Code)
    \/ a.Country_Code = b.Country_Code /\ a.Year < b.Year

\* a Value cell as an exact number
value_cell(v) == IF v = NA THEN NA ELSE <<rat(v[1], 1)>>

(***************************************************************************)
(* FE_regression.build_esg_indices                                         *)
(***************************************************************************)
esg_key(row) == <<row.Country_Name, row.Country_Code, row.Year>>

ESG_COLUMN == ("E" :> "ENV_index") @@ ("S" :> "SOC_index") @@ ("G" :> "GOV_index")

\* value_signed without the direction
value_signed_no_direction(row) == value_cell(row.Value)

\* df_esg["Value"] * df_esg["direction"]
value_signed(row) ==
    IF row.Value = NA THEN NA
    ELSE <<rat(row.Value[1] * ESG_MAP[row.Indicator].direction, 1)>>

\* groupby("Indicator")["value_signed"].transform((x - x.mean()) / x.std())
\* for row i of df_esg
value_z(df_esg, i) ==
    LET group == SelectSeq(df_esg, LAMBDA r : r.Indicator = df_esg[i].Indicator) IN
    zscore(value_signed(df_esg[i]), [j \in 1..Len(group) |-> value_signed(group[j])])

build_esg_indices(df_50) ==
    LET df_esg == SelectSeq(df_50, LAMBDA r : r.Indicator \in DOMAIN ESG_MAP)
        ESG_category(i) == ESG_MAP[df_esg[i].Indicator].category
        \* groupby leaves out the rows with a missing key
        keyed == {i \in 1..Len(df_esg) :
                     df_esg[i].Country_Name # NaN /\ df_esg[i].Country_Code # NaN}
        \* average z within category (skipna): the group of (key, category)
        group(key, category) ==
            SelectSeq([i \in 1..Len(df_esg) |-> i],
                      LAMBDA i : i \in keyed /\ esg_key(df_esg[i]) = key
                                 /\ ESG_category(i) = category)
        group_mean(key, category) ==
            LET rows == group(key, category) IN
            IF rows = <<>> THEN NA
            ELSE zscore_mean([k \in 1..Len(rows) |-> value_z(df_esg, rows[k])])
        \* pivot to wide format: one row per key, one column per category
        \* that has a group
        index == sorted_keys({esg_key(df_esg[i]) : i \in keyed}, key3_before)
        esg_wide == [k \in 1..Len(index) |->
            [Country_Name |-> index[k][1], Country_Code |-> index[k][2],
             Year |-> index[k][3],
             ENV_index |-> group_mean(index[k], "E"),
             SOC_index |-> group_mean(index[k], "S"),
             GOV_index |-> group_mean(index[k], "G")]]
    IN  [columns |-> {ESG_COLUMN[ESG_category(i)] : i \in keyed},
         rows |-> sort_by(esg_wide, code_year_before)]

(***************************************************************************)
(* FE_regression.build_econ_wide                                           *)
(***************************************************************************)
econ_key(row) ==
    <<row.Country_Name, row.Country_Code, row.Year, row.Region, row.Income_Group>>

ECON_COLUMN ==
    (IND_GDP_GROWTH :> "gdp_growth") @@ (IND_GDP_PER_CAPITA :> "gdp_per_capita") @@
    (IND_INFLATION :> "inflation") @@ (IND_FDI :> "fdi_inflows") @@
    (IND_RD :> "R&D_expenditure")

\* the pivot with aggfunc="first": duplicates are not averaged
build_econ_wide_first(df_50) ==
    LET df_econ == SelectSeq(df_50, LAMBDA r : isin(r.Indicator, ECON_INDICATORS))
        \* pivot_table groups by index and columns and leaves out the rows
        \* with a missing key
        keyed == {i \in 1..Len(df_econ) :
                     /\ df_econ[i].Country_Name # NaN
                     /\ df_econ[i].Country_Code # NaN
                     /\ df_econ[i].Region # NaN
                     /\ df_econ[i].Income_Group # NaN}
        \* the first value of the group of (key, indicator)
        group(key, indicator) ==
            SelectSeq([i \in 1..Len(df_econ) |-> i],
                      LAMBDA i : i \in keyed /\ econ_key(df_econ[i]) = key
                                 /\ df_econ[i].Indicator = indicator)
        agged(key, indicator) ==
            LET rows == group(key, indicator) IN
            LET values == present([k \in 1..Len(rows) |-> value_cell(df_econ[rows[k]].Value)])
            IN  IF values = <<>> THEN NA ELSE Head(values)
        \* the groups whose mean is missing are dropped before the unstack
        kept == {i \in keyed : agged(econ_key(df_econ[i]), df_econ[i].Indicator) # NA}
        index == sorted_keys({econ_key(df_econ[i]) : i \in kept}, key5_before)
    IN  [columns |-> {ECON_COLUMN[df_econ[i].Indicator] : i \in kept},
         rows |-> [k \in 1..Len(index) |->
            [Country_Name |-> index[k][1], Country_Code |-> index[k][2],
             Year |-> index[k][3], Region |-> index[k][4],
             Income_Group |-> index[k][5],
             gdp_growth |-> agged(index[k], IND_GDP_GROWTH),
             gdp_per_capita |-> agged(index[k], IND_GDP_PER_CAPITA),
             inflation |-> agged(index[k], IND_INFLATION),
             fdi_inflows |-> agged(index[k], IND_FDI),
             RD_expenditure |-> agged(index[k], IND_RD)]]]

build_econ_wide(df_50) ==
    LET df_econ == SelectSeq(df_50, LAMBDA r : isin(r.Indicator, ECON_INDICATORS))
        \* pivot_table groups by index and columns and leaves out the rows
        \* with a missing key
        keyed == {i \in 1..Len(df_econ) :
                     /\ df_econ[i].Country_Name # NaN
                     /\ df_econ[i].Country_Code # NaN
                     /\ df_econ[i].Region # NaN
                     /\ df_econ[i].Income_Group # NaN}
        \* aggfunc="mean" of the group of (key, indicator)
        group(key, indicator) ==
            SelectSeq([i \in 1..Len(df_econ) |-> i],
                      LAMBDA i : i \in keyed /\ econ_key(df_econ[i]) = key
                                 /\ df_econ[i].Indicator = indicator)
        agged(key, indicator) ==
            LET rows == group(key, indicator) IN
            series_mean([k \in 1..Len(rows) |-> value_cell(df_econ[rows[k]].Value)])
        \* the groups whose mean is missing are dropped before the unstack
        kept == {i \in keyed : agged(econ_key(df_econ[i]), df_econ[i].Indicator) # NA}
        index == sorted_keys({econ_key(df_econ[i]) : i \in kept}, key5_before)
    IN  [columns |-> {ECON_COLUMN[df_econ[i].Indicator] : i \in kept},
         rows |-> [k \in 1..Len(index) |->
            [Country_Name |-> index[k][1], Country_Code |-> index[k][2],
             Year |-> index[k][3], Region |-> index[k][4],
             Income_Group |-> index[k][5],
             gdp_growth |-> agged(index[k], IND_GDP_GROWTH),
             gdp_per_capita |-> agged(index[k], IND_GDP_PER_CAPITA),
             inflation |-> agged(index[k], IND_INFLATION),
             fdi_inflows |-> agged(index[k], IND_FDI),
             RD_expenditure |-> agged(index[k], IND_RD)]]]

(***************************************************************************)
(* FE_regression.build_regression_dataset                                  *)
(***************************************************************************)
\* a row of the regression dataset
reg_row(econ, ENV_index, SOC_index, GOV_index) ==
    [Country_Name |-> econ.Country_Name, Country_Code |-> econ.Country_Code,
     Year |-> econ.Year, Region |-> econ.Region, Income_Group |-> econ.Income_Group,
     gdp_growth |-> econ.gdp_growth, gdp_per_capita |-> econ.gdp_per_capita,
     inflation |-> econ.inflation, fdi_inflows |-> econ.fdi_inflows,
     RD_expenditure |-> econ.RD_expenditure,
     ENV_index |-> ENV_index, SOC_index |-> SOC_index, GOV_index |-> GOV_index]

\* a left merge on (Country Code, Year) alone
merge_left_on_code_year(econ_rows, esg_rows) ==
    LET RECURSIVE merged(_)
        merged(left) ==
            IF left = <<>> THEN <<>>
            ELSE LET found == SelectSeq(esg_rows,
                        LAMBDA e : e.Country_Code = Head(left).Country_Code
                                   /\ e.Year = Head(left).Year)
                 IN  (IF found = <<>> THEN <<reg_row(Head(left), NA, NA, NA)>>
                      ELSE [j \in 1..Len(found) |->
                              reg_row(Head(left), found[j].ENV_index,
                                      found[j].SOC_index, found[j].GOV_index)])
                     \o bind(Tail(left), merged)
    IN  merged(econ_rows)

\* econ_wide.merge(esg_wide, on=["Country Name", "Country Code", "Year"],
\* how="left")
merge_left_on_keys(econ_rows, esg_rows) ==
    LET RECURSIVE merged(_)
        merged(left) ==
            IF left = <<>> THEN <<>>
            ELSE LET found == SelectSeq(esg_rows,
                        LAMBDA e : esg_key(e) = esg_key(Head(left)))
                 IN  (IF found = <<>> THEN <<reg_row(Head(left), NA, NA, NA)>>
                      ELSE [j \in 1..Len(found) |->
                              reg_row(Head(left), found[j].ENV_index,
                                      found[j].SOC_index, found[j].GOV_index)])
                     \o bind(Tail(left), merged)
    IN  merged(econ_rows)

\* rename(columns={"Country Code": "country_code"})
rename_country_code(reg_df) ==
    [i \in 1..Len(reg_df) |->
        [country_code |-> reg_df[i].Country_Code,
         Country_Name |-> reg_df[i].Country_Name,
         Year |-> reg_df[i].Year, Region |-> reg_df[i].Region,
         Income_Group |-> reg_df[i].Income_Group,
         gdp_growth |-> reg_df[i].gdp_growth,
         gdp_per_capita |-> reg_df[i].gdp_per_capita,
         inflation |-> reg_df[i].inflation,
         fdi_inflows |-> reg_df[i].fdi_inflows,
         RD_expenditure |-> reg_df[i].RD_expenditure,
         ENV_index |-> reg_df[i].ENV_index, SOC_index |-> reg_df[i].SOC_index,
         GOV_index |-> reg_df[i].GOV_index]]

\* econ_wide.merge(esg_wide, ...).sort_values(["Country Code", "Year"])
\* .rename(...)
merge_sort_rename(econ_wide, esg_wide) ==
    [columns |-> econ_wide.columns \cup esg_wide.columns,
     rows |-> bind(sort_by(merge_left_on_keys(econ_wide.rows, esg_wide.rows),
                           code_year_before),
                   rename_country_code)]

build_regression_dataset(df_50) ==
    bind(build_esg_indices(df_50), LAMBDA esg_wide :
        bind(build_econ_wide(df_50), LAMBDA econ_wide :
            merge_sort_rename(econ_wide, esg_wide)))

(***************************************************************************)
(* FE_regression.run_country_year_fe                                       *)
(* Returns the exception of the column selection, or the sample fe_df      *)
(* that is handed to the OLS fit.                                          *)
(***************************************************************************)
FE_COLUMNS == {"gdp_growth", "ENV_index", "SOC_index", "GOV_index"}

fe_row(r) ==
    [country_code |-> r.country_code, Year |-> r.Year, gdp_growth |-> r.gdp_growth,
     ENV_index |-> r.ENV_index, SOC_index |-> r.SOC_index, GOV_index |-> r.GOV_index]

\* dropna on the three indices only
run_country_year_fe_dropna_indices(reg_df) ==
    IF ~(FE_COLUMNS \subseteq reg_df.columns)
    THEN [exc |-> "KeyError", fe_df |-> <<>>]
    ELSE [exc |-> "",
          fe_df |-> SelectSeq([i \in 1..Len(reg_df.rows) |-> fe_row(reg_df.rows[i])],
                LAMBDA r : r.ENV_index # NA /\ r.SOC_index # NA /\ r.GOV_index # NA)]

run_country_year_fe(reg_df) ==
    IF ~(FE_COLUMNS \subseteq reg_df.columns)
    THEN [exc |-> "KeyError", fe_df |-> <<>>]
    ELSE [exc |-> "",
          fe_df |-> SelectSeq([i \in 1..Len(reg_df.rows) |-> fe_row(reg_df.rows[i])],
                LAMBDA r : /\ r.country_code # NaN
                           /\ r.gdp_growth # NA
                           /\ r.ENV_index # NA /\ r.SOC_index # NA /\ r.GOV_index # NA)]

(***************************************************************************)
(* country_selection.load_full_panel                                       *)
(***************************************************************************)
load_full_panel(dsk) ==
    IF ~dsk[FILE_FULL_PANEL].exists
    THEN [exc |-> "FileNotFoundError", df |-> <<>>]
    ELSE [exc |-> "", df |-> read_csv(dsk[FILE_FULL_PANEL])]

(***************************************************************************)
(* country_selection.select_50_countries                                   *)
(***************************************************************************)
\* the filter with the rows of missing Value dropped as well
select_50_countries_dropna(df, selected_names) ==
    LET names == IF selected_names = None THEN SELECTED_COUNTRY_NAMES
                 ELSE selected_names[1]
        keep(row) == isin(row.Country_Name, names) /\ row.Value # NA
    IN  IF names = <<>>
        THEN [exc |-> "ValueError", df_50 |-> <<>>, n_unique |-> 0]
        ELSE [exc |-> "", df_50 |-> SelectSeq(df, keep),
              n_unique |-> nunique(SelectSeq(df, keep))]

\* the filter without the check of the list
select_50_countries_unchecked(df, selected_names) ==
    LET names == IF selected_names = None THEN SELECTED_COUNTRY_NAMES
                 ELSE selected_names[1]
        keep(row) == isin(row.Country_Name, names)
    IN  [exc |-> "", df_50 |-> SelectSeq(df, keep),
         n_unique |-> nunique(SelectSeq(df, keep))]

\* returns the filtered panel df_50 and the printed count n_unique, or the
\* exception raised
select_50_countries(df, selected_names) ==
    LET names == IF selected_names = None THEN SELECTED_COUNTRY_NAMES
                 ELSE selected_names[1]
        keep(row) == isin(row.Country_Name, names)
    IN  IF names = <<>>
        THEN [exc |-> "ValueError", df_50 |-> <<>>, n_unique |-> 0]
        ELSE [exc |-> "", df_50 |-> SelectSeq(df, keep),
              n_unique |-> nunique(SelectSeq(df, keep))]

(***************************************************************************)
(* country_selection.build_50_country_panel                                *)
(* Returns the panel, the exception raised, the disk after the call and    *)
(* the file operations and prints of the call.                             *)
(***************************************************************************)
build_50_country_panel(save, filename, dsk) ==
    LET loaded == load_full_panel(dsk)
        sel == select_50_countries(loaded.df, None)
        read == <<IoEvent("read", FILE_FULL_PANEL, Len(loaded.df))>>
    IN  IF loaded.exc # ""
        THEN [exc |-> loaded.exc, df_50 |-> <<>>, disk |-> dsk, io |-> <<>>]
        ELSE IF sel.exc # ""
        THEN [exc |-> sel.exc, df_50 |-> <<>>, disk |-> dsk, io |-> read]
        ELSE IF save
        THEN [exc |-> "", df_50 |-> sel.df_50,
              disk |-> [dsk EXCEPT ![out_path(filename)] = to_csv(sel.df_50)],
              io |-> read \o <<IoEvent("print", "n_unique", sel.n_unique),
                               IoEvent("write", out_path(filename), Len(sel.df_50))>>]
        ELSE [exc |-> "", df_50 |-> sel.df_50, disk |-> dsk,
              io |-> read \o <<IoEvent("print", "n_unique", sel.n_unique)>>]


(***************************************************************************)
(* data_preparation.load_raw_data and build_merged_dataset.                *)
(* A raw CSV file holds a wide table of cell texts, the classification     *)
(* workbook the rows of its sheet.  Both return the exception raised, the  *)
(* disk after the call and the file operations and prints of the call.     *)
(***************************************************************************)
load_raw_data(dsk) ==
    LET read_esg == <<IoEvent("read", FILE_ESG, Len(dsk[FILE_ESG].table.rows))>>
        read_gdp == <<IoEvent("read", FILE_GDP, Len(dsk[FILE_GDP].table.rows))>>
        read_class == <<IoEvent("read", FILE_CLASS, Len(dsk[FILE_CLASS].rows))>>
        nothing == [df_esg |-> <<>>, df_gdp |-> <<>>, df_class |-> <<>>]
    IN  IF ~dsk[FILE_ESG].exists
        THEN [exc |-> "FileNotFoundError", io |-> <<>>] @@ nothing
        ELSE IF ~dsk[FILE_GDP].exists
        THEN [exc |-> "FileNotFoundError", io |-> read_esg] @@ nothing
        ELSE IF ~dsk[FILE_CLASS].exists
        THEN [exc |-> "FileNotFoundError", io |-> read_esg \o read_gdp] @@ nothing
        ELSE [exc |-> "", io |-> read_esg \o read_gdp \o read_class,
              df_esg |-> dsk[FILE_ESG].table, df_gdp |-> dsk[FILE_GDP].table,
              df_class |-> dsk[FILE_CLASS].rows]

\* the build that does not write the panel file
build_merged_dataset_not_saved(save, filename, dsk) ==
    LET raw == load_raw_data(dsk)
        esg_long == clean_esg_dataset(raw.df_esg)
        gdp_long == clean_gdp_dataset(raw.df_gdp)
        class_clean == prepare_country_classification(raw.df_class)
        panel_long == merge_to_panel(esg_long.df, gdp_long.df, class_clean)
    IN  IF raw.exc # ""
        THEN [exc |-> raw.exc, panel_long |-> <<>>, disk |-> dsk, io |-> raw.io]
        ELSE IF esg_long.exc # ""
        THEN [exc |-> esg_long.exc, panel_long |-> <<>>, disk |-> dsk, io |-> raw.io]
        ELSE IF gdp_long.exc # ""
        THEN [exc |-> gdp_long.exc, panel_long |-> <<>>, disk |-> dsk, io |-> raw.io]
        ELSE [exc |-> "", panel_long |-> panel_long, disk |-> dsk, io |-> raw.io]

build_merged_dataset(save, filename, dsk) ==
    LET raw == load_raw_data(dsk)
        esg_long == clean_esg_dataset(raw.df_esg)
        gdp_long == clean_gdp_dataset(raw.df_gdp)
        class_clean == prepare_country_classification(raw.df_class)
        panel_long == merge_to_panel(esg_long.df, gdp_long.df, class_clean)
    IN  IF raw.exc # ""
        THEN [exc |-> raw.exc, panel_long |-> <<>>, disk |-> dsk, io |-> raw.io]
        ELSE IF esg_long.exc # ""
        THEN [exc |-> esg_long.exc, panel_long |-> <<>>, disk |-> dsk, io |-> raw.io]
        ELSE IF gdp_long.exc # ""
        THEN [exc |-> gdp_long.exc, panel_long |-> <<>>, disk |-> dsk, io |-> raw.io]
        ELSE IF save
        THEN [exc |-> "", panel_long |-> panel_long,
              disk |-> [dsk EXCEPT ![out_path(filename)] = to_csv(panel_long)],
              io |-> raw.io \o <<IoEvent("write", out_path(filename), Len(panel_long))>>]
        ELSE [exc |-> "", panel_long |-> panel_long, disk |-> dsk, io |-> raw.io]

(***************************************************************************)
(* FE_regression.load_panel_50, save_regression_dataset,                   *)
(* save_regression_table_tex and run_fe_regression.                        *)
(***************************************************************************)
PANEL_50_PATH == "data/processed/panel_50_countries.csv"

load_panel_50(path, dsk) ==
    IF ~dsk[path].exists
    THEN [exc |-> "FileNotFoundError", df |-> <<>>]
    ELSE [exc |-> "", df |-> read_csv(dsk[path])]

\* the file holds the table; the program never reads it back
save_regression_dataset(reg_df, path, dsk) ==
    [dsk EXCEPT ![path] = [exists |-> TRUE, columns |-> reg_df.columns,
                           rows |-> reg_df.rows]]

\* the file holds the summary table of the fitted model
save_regression_table_tex(model, path, dsk) ==
    [dsk EXCEPT ![path] = [exists |-> TRUE, summary |-> model]]

\* the exception of a fit that the statistics library refuses
FitError == "exception raised by the OLS fit"

\* the run from the loaded panel on; fit_raises: whether the library's fit
\* raises on the sample it is given
fit_and_save(reg_df, n_loaded, dsk, fit_raises) ==
    LET saved == save_regression_dataset(reg_df, FE_DATASET_PATH, dsk)
        fe == run_country_year_fe(reg_df)
        model == [data |-> fe.fe_df]
        built == <<IoEvent("print", "Reading", 0),
                   IoEvent("read", PANEL_50_PATH, n_loaded),
                   IoEvent("print", "Shape", n_loaded),
                   IoEvent("print", "Regression dataset shape", Len(reg_df.rows)),
                   IoEvent("write", FE_DATASET_PATH, Len(reg_df.rows))>>
    IN  IF fe.exc # ""
        THEN [exc |-> fe.exc, disk |-> saved, io |-> built]
        ELSE IF fit_raises
        THEN [exc |-> FitError, disk |-> saved, io |-> built]
        ELSE [exc |-> "",
              disk |-> save_regression_table_tex(model, FE_TABLE_TEX_PATH, saved),
              io |-> built \o <<IoEvent("print", "summary", Len(fe.fe_df)),
                                IoEvent("write", FE_TABLE_TEX_PATH, Len(fe.fe_df))>>]

\* the run that takes a missing panel file for an empty panel
run_fe_regression_without_check(dsk, fit_raises) ==
    LET df_50 == IF dsk[PANEL_50_PATH].exists THEN read_csv(dsk[PANEL_50_PATH])
                 ELSE <<>>
    IN  bind(build_regression_dataset(df_50),
             LAMBDA reg_df : fit_and_save(reg_df, Len(df_50), dsk, fit_raises))

run_fe_regression(dsk, fit_raises) ==
    LET loaded == load_panel_50(PANEL_50_PATH, dsk) IN
    IF loaded.exc # ""
    THEN [exc |-> loaded.exc, disk |-> dsk, io |-> <<IoEvent("print", "Reading", 0)>>]
    ELSE bind(build_regression_dataset(loaded.df),
              LAMBDA reg_df : fit_and_save(reg_df, Len(loaded.df), dsk, fit_raises))

(***************************************************************************)
(* Specification of the category functions: one call of assign_category    *)
(* or of assign_economic_category on a name of IndicatorNames or on an     *)
(* indicator name of ESG_MAP or ECON_INDICATORS.                           *)
(***************************************************************************)
\* the names of the two tables of the regression builder
TableNames == DOMAIN ESG_MAP \cup {ECON_INDICATORS[j] : j \in 1..Len(ECON_INDICATORS)}

InitCategory ==
    /\ pc = "call"
    /\ args \in [fn : {"assign_category", "assign_economic_category"},
                 indicator_name : IndicatorNames \cup TableNames]
    /\ ret = ""
    /\ exc = ""
    /\ disk = NoFiles
    /\ io_log = <<>>
    /\ SELECTED_COUNTRY_NAMES = SELECTED_COUNTRY_NAMES_literal

AssignCategory ==
    /\ pc = "call"
    /\ args.fn = "assign_category"
    /\ pc' = "return"
    /\ ret' = assign_category(args.indicator_name)
    /\ UNCHANGED <<args, exc, disk, io_log, SELECTED_COUNTRY_NAMES>>

AssignEconomicCategory ==
    /\ pc = "call"
    /\ args.fn = "assign_economic_category"
    /\ pc' = "return"
    /\ ret' = assign_economic_category(args.indicator_name)
    /\ UNCHANGED <<args, exc, disk, io_log, SELECTED_COUNTRY_NAMES>>

NextCategory == AssignCategory \/ AssignEconomicCategory

SpecCategory == InitCategory /\ [][NextCategory]_vars

(***************************************************************************)
(* Specification of the country selection: one call of                     *)
(* select_50_countries on a panel and a selection list, or one call of     *)
(* build_50_country_panel on a disk that holds the full panel (or not).    *)
(***************************************************************************)
\* "Vietnam" is not the spelling of the built-in list ("Viet Nam")
SelectNames == {"India", "Nepal", "Vietnam", NaN}

CodeOf(name) ==
    CASE name = "India" -> "IND"
      [] name = "Nepal" -> "NPL"
      [] name = "Vietnam" -> "VNM"
      [] OTHER -> "XXX"

SelectRows ==
    {PanelRow(n, CodeOf(n), IND_GINI, 2000, v, "Social", "ESG", "Asia", "Lower middle income") :
        n \in SelectNames, v \in {NA, <<31>>}}

SelectPanels == SeqsUpTo(SelectRows, MaxSelectRows)

\* the selected_names argument: not passed, empty, or a list (one with a
\* repeated name and a name that occurs in no panel)
SelectionLists ==
    {None, << <<>> >>, << <<"India">> >>, << <<"Nepal", "Vietnam">> >>,
     << <<"India", "India", "Atlantis">> >>}

\* a 50-country panel file left by an earlier run
StalePanel50 ==
    to_csv(<<PanelRow("Nepal", "NPL", IND_GINI, 1999, <<30>>, "Social", "ESG",
                      "Asia", "Lower middle income")>>)

InitSelect ==
    /\ pc = "call"
    /\ ret = <<>>
    /\ exc = ""
    /\ io_log = <<>>
    /\ SELECTED_COUNTRY_NAMES \in {SELECTED_COUNTRY_NAMES_literal, <<>>}
    /\ \/ /\ args \in [fn : {"select_50_countries"}, df : SelectPanels,
                       selected_names : SelectionLists]
          /\ disk = NoFiles
       \/ /\ args \in [fn : {"build_50_country_panel"}, save : BOOLEAN,
                       filename : {"panel_50_countries.csv"}]
          /\ \E full \in {Absent} \cup {to_csv(df) : df \in SelectPanels},
                old \in {Absent, StalePanel50} :
                disk = [NoFiles EXCEPT ![FILE_FULL_PANEL] = full,
                                       ![FILE_PANEL_50] = old]

Select50Countries ==
    /\ pc = "call"
    /\ args.fn = "select_50_countries"
    /\ LET r == select_50_countries(args.df, args.selected_names) IN
        /\ exc' = r.exc
        /\ ret' = r.df_50
        /\ io_log' = IF r.exc = "" THEN io_log \o <<IoEvent("print", "n_unique", r.n_unique)>>
                     ELSE io_log
    /\ pc' = "return"
    /\ UNCHANGED <<args, disk, SELECTED_COUNTRY_NAMES>>

Build50CountryPanel ==
    /\ pc = "call"
    /\ args.fn = "build_50_country_panel"
    /\ LET r == build_50_country_panel(args.save, args.filename, disk) IN
        /\ exc' = r.exc
        /\ ret' = r.df_50
        /\ disk' = r.disk
        /\ io_log' = io_log \o r.io
    /\ pc' = "return"
    /\ UNCHANGED <<args, SELECTED_COUNTRY_NAMES>>

NextSelect == Select50Countries \/ Build50CountryPanel

SpecSelect == InitSelect /\ [][NextSelect]_vars

(***************************************************************************)
(* Specification of the reshape: one call of clean_esg_dataset or of       *)
(* clean_gdp_dataset on a raw wide table of at most MaxRawRows rows.       *)
(***************************************************************************)
\* the header of the column of year y, as in the raw files: "2000 [YR2000]"
YearHeader(y) == fmt_int(y) \o <<" ", "[", "Y", "R">> \o fmt_int(y) \o <<"]">>
\* the header read_csv gives a second column of the same name
DuplicateHeader(y) == YearHeader(y) \o <<".", "1">>
\* a column that is no year column
OtherHeader == <<"U","n","n","a","m","e","d",":"," ","5">>

RawYears == {2000, 2001}

RawColumnLists ==
    {<<>>, <<YearHeader(2000)>>, <<YearHeader(2000), YearHeader(2001)>>,
     <<OtherHeader, YearHeader(2001)>>, <<YearHeader(2000), OtherHeader>>,
     <<YearHeader(2000), DuplicateHeader(2000)>>}

\* cell texts: no value, a number
RawCells == {NaNText, <<"3", "1">>}

\* the leading cells of a raw row; the last is a footer line of the file,
\* which has text in its first cell only
RawHeads ==
    {<<"India", "IND", IND_GINI, "SI.POV.GINI">>,
     <<"Nepal", "NPL", IND_GDP_GROWTH, "NY.GDP.MKTP.KD.ZG">>,
     <<"Data from database: World Development Indicators", NaN, NaNText, NaN>>}

RawRowsFor(columns) ==
    {RawRow(h[1], h[2], h[3], h[4], cells) :
        h \in RawHeads, cells \in [1..Len(columns) -> RawCells]}

RawTables ==
    UNION {[columns : {columns}, rows : SeqsUpTo(RawRowsFor(columns), MaxRawRows)] :
              columns \in RawColumnLists}

InitClean ==
    /\ pc = "call"
    /\ args \in [fn : {"clean_esg_dataset", "clean_gdp_dataset"}, df : RawTables]
    /\ ret = <<>>
    /\ exc = ""
    /\ disk = NoFiles
    /\ io_log = <<>>
    /\ SELECTED_COUNTRY_NAMES = SELECTED_COUNTRY_NAMES_literal

CleanEsgDataset ==
    /\ pc = "call"
    /\ args.fn = "clean_esg_dataset"
    /\ exc' = clean_esg_dataset(args.df).exc
    /\ ret' = clean_esg_dataset(args.df).df
    /\ pc' = "return"
    /\ UNCHANGED <<args, disk, io_log, SELECTED_COUNTRY_NAMES>>

CleanGdpDataset ==
    /\ pc = "call"
    /\ args.fn = "clean_gdp_dataset"
    /\ exc' = clean_gdp_dataset(args.df).exc
    /\ ret' = clean_gdp_dataset(args.df).df
    /\ pc' = "return"
    /\ UNCHANGED <<args, disk, io_log, SELECTED_COUNTRY_NAMES>>

NextClean == CleanEsgDataset \/ CleanGdpDataset

SpecClean == InitClean /\ [][NextClean]_vars

(***************************************************************************)
(* Specification of the merge: one call of merge_to_panel on two long      *)
(* tables of at most MaxLongRows rows each and a classification table.     *)
(***************************************************************************)
\* cell texts of the long tables with the number each stands for: no value,
\* the raw files' placeholder "..", whole numbers
ValueTexts ==
    {<<NaNText, NA>>, <<<<".", ".">>, NA>>, <<<<"3", "1">>, <<31>>>>,
     <<<<"-", "4">>, <<-4>>>>, <<<<"7", ".", "0">>, <<7>>>>}

\* the number a cell text of ValueTexts stands for
MeaningOf(text) == (CHOOSE p \in ValueTexts : p[1] = text)[2]

\* "Bharat" is the name of IND in the long table only; XKX has no
\* classification row
EsgLongRows ==
    {LongRow("Bharat", "IND", IND_GINI, 2001, <<"3", "1">>, "Social", "ESG"),
     LongRow("Bharat", "IND", IND_CO2, 2001, <<".", ".">>, "Environmental", "ESG"),
     LongRow("Bharat", "IND", IND_GINI, 2000, <<"-", "4">>, "Social", "ESG"),
     LongRow("Nepal", "NPL", IND_GINI, 2000, NaNText, "Social", "ESG"),
     LongRow("Kosovo", "XKX", IND_CO2, 2001, <<"7", ".", "0">>, "Environmental", "ESG"),
     LongRow("Kosovo", "XKX", IND_GDP_GROWTH, 2000, <<"3", "1">>, "Economic", "ESG")}

GdpLongRows ==
    {LongRow("Bharat", "IND", IND_INFLATION, 2001, <<"7", ".", "0">>, "Economic", "Economic"),
     LongRow("Nepal", "NPL", IND_FDI, 2000, <<".", ".">>, "Economic", "Economic"),
     LongRow("Kosovo", "XKX", IND_GDP_PER_CAPITA, 2000, <<"3", "1">>, "Economic", "Economic")}

\* classification tables: codes IND and NPL; NPL only, with no income
\* group; empty; and one with two rows for IND
ClassTables ==
    {<<ClassRow("NPL", "Nepal", "South Asia", "Low income"),
       ClassRow("IND", "India", "South Asia", "Lower middle income")>>,
     <<ClassRow("NPL", "Nepal", "South Asia", NaN)>>,
     <<>>,
     <<ClassRow("IND", "India", "South Asia", "Lower middle income"),
       ClassRow("IND", "India (2)", "Asia", "Low income")>>}

InitMerge ==
    /\ pc = "call"
    /\ args \in [fn : {"merge_to_panel"},
                 esg_long : SeqsUpTo(EsgLongRows, MaxLongRows),
                 gdp_long : SeqsUpTo(GdpLongRows, MaxLongRows),
                 class_clean : ClassTables]
    /\ ret = <<>>
    /\ exc = ""
    /\ disk = NoFiles
    /\ io_log = <<>>
    /\ SELECTED_COUNTRY_NAMES = SELECTED_COUNTRY_NAMES_literal

MergeToPanel ==
    /\ pc = "call"
    /\ args.fn = "merge_to_panel"
    /\ ret' = merge_to_panel(args.esg_long, args.gdp_long, args.class_clean)
    /\ pc' = "return"
    /\ UNCHANGED <<args, exc, disk, io_log, SELECTED_COUNTRY_NAMES>>

NextMerge == MergeToPanel

SpecMerge == InitMerge /\ [][NextMerge]_vars

(***************************************************************************)
(* Specification of the regression builder: one call of build_esg_indices, *)
(* build_econ_wide or build_regression_dataset on a 50-country panel of at *)
(* most MaxRegRows rows, or one call of run_country_year_fe on a           *)
(* regression dataset of at most MaxFeRows rows.                           *)
(***************************************************************************)
\* an indicator of neither list
IND_POPULATION ==
    <<"P","o","p","u","l","a","t","i","o","n",","," ","t","o","t","a","l">>

\* region and income group by country code; NPL has no classification row
RegionOf(code) ==
    CASE code = "IND" -> "South Asia"
      [] code = "VNM" -> "East Asia & Pacific"
      [] OTHER -> NaN
IncomeOf(code) ==
    CASE code = "IND" -> "Lower middle income"
      [] code = "VNM" -> "Lower middle income"
      [] OTHER -> NaN

RegRow(indicator, name, code, year, value) ==
    PanelRow(name, code, indicator, year, value,
             IF indicator \in DOMAIN ESG_MAP THEN assign_category(indicator)
             ELSE assign_economic_category(indicator),
             IF indicator \in DOMAIN ESG_MAP THEN "ESG" ELSE "Economic",
             RegionOf(code), IncomeOf(code))

\* the rows a panel is drawn from, in panel order: repeated keys, missing
\* values, a country without classification, and the code VNM under the
\* two spellings of its name (a panel selected by a list with both)
RegUniverse == <<
    RegRow(IND_CO2, "India", "IND", 2000, <<1>>),
    RegRow(IND_CO2, "Nepal", "NPL", 2000, <<3>>),
    RegRow(IND_CO2, "India", "IND", 2001, NA),
    RegRow(IND_CO2, "India", "IND", 2000, <<2>>),
    RegRow(IND_RENEWABLE_ENERGY, "India", "IND", 2000, <<3>>),
    RegRow(IND_RENEWABLE_ENERGY, "Nepal", "NPL", 2000, <<0>>),
    RegRow(IND_GINI, "India", "IND", 2000, <<3>>),
    RegRow(IND_GINI, "Nepal", "NPL", 2000, <<3>>),
    RegRow(IND_GINI, "India", "IND", 2001, <<1>>),
    RegRow(IND_CORRUPTION, "India", "IND", 2000, <<2>>),
    RegRow(IND_CORRUPTION, "Viet Nam", "VNM", 2000, <<-1>>),
    RegRow(IND_GDP_GROWTH, "India", "IND", 2000, <<4>>),
    RegRow(IND_GDP_GROWTH, "India", "IND", 2000, <<1>>),
    RegRow(IND_GDP_GROWTH, "Vietnam", "VNM", 2000, <<2>>),
    RegRow(IND_INFLATION, "Viet Nam", "VNM", 2000, <<7>>),
    RegRow(IND_GDP_GROWTH, "Nepal", "NPL", 2000, <<6>>),
    RegRow(IND_GDP_GROWTH, "India", "IND", 2001, NA),
    RegRow(IND_POPULATION, "India", "IND", 2000, <<5>>),
    RegRow(IND_CORRUPTION, "Vietnam", "VNM", 2000, <<1>>) >>

\* the panel of the rows of RegUniverse at the positions of chosen
PanelOf(chosen) ==
    LET at == SelectSeq([i \in 1..Len(RegUniverse) |-> i], LAMBDA i : i \in chosen)
    IN  [k \in 1..Len(at) |-> RegUniverse[at[k]]]

RegPanels ==
    {PanelOf(chosen) : chosen \in {c \in SUBSET (1..Len(RegUniverse)) :
                                      Cardinality(c) <= MaxRegRows}}

\* regression datasets given to run_country_year_fe: each of the fields
\* country_code, gdp_growth and the three indices present or missing (a
\* present index may be zero), with or without the GOV_index column
RegColumns == {"gdp_growth", "gdp_per_capita", "inflation", "fdi_inflows",
               "R&D_expenditure", "ENV_index", "SOC_index", "GOV_index"}

SomeIndex == <<{[coef |-> <<1, 2>>, rad |-> <<2, 1>>]}>>
ZeroIndex == <<{}>>

FeInputRows ==
    {[country_code |-> code, Country_Name |-> "India", Year |-> 2000,
      Region |-> "South Asia", Income_Group |-> "Lower middle income",
      gdp_growth |-> g, gdp_per_capita |-> NA, inflation |-> NA,
      fdi_inflows |-> NA, RD_expenditure |-> NA,
      ENV_index |-> e, SOC_index |-> s, GOV_index |-> v] :
        code \in {"IND", NaN}, g \in {NA, <<<<5, 2>>>>},
        e \in {NA, SomeIndex}, s \in {NA, ZeroIndex}, v \in {NA, SomeIndex}}

FeTables ==
    [columns : {RegColumns, RegColumns \ {"GOV_index"}},
     rows : SeqsUpTo(FeInputRows, MaxFeRows)]

InitRegression ==
    /\ pc = "call"
    /\ \/ args \in [fn : {"build_esg_indices", "build_econ_wide",
                          "build_regression_dataset"},
                    df_50 : RegPanels]
       \/ args \in [fn : {"run_country_year_fe"}, reg_df : FeTables]
    /\ ret = <<>>
    /\ exc = ""
    /\ disk = NoFiles
    /\ io_log = <<>>
    /\ SELECTED_COUNTRY_NAMES = SELECTED_COUNTRY_NAMES_literal

BuildEsgIndices ==
    /\ pc = "call"
    /\ args.fn = "build_esg_indices"
    /\ ret' = build_esg_indices(args.df_50)
    /\ pc' = "return"
    /\ UNCHANGED <<args, exc, disk, io_log, SELECTED_COUNTRY_NAMES>>

BuildEconWide ==
    /\ pc = "call"
    /\ args.fn = "build_econ_wide"
    /\ ret' = build_econ_wide(args.df_50)
    /\ pc' = "return"
    /\ UNCHANGED <<args, exc, disk, io_log, SELECTED_COUNTRY_NAMES>>

BuildRegressionDataset ==
    /\ pc = "call"
    /\ args.fn = "build_regression_dataset"
    /\ ret' = build_regression_dataset(args.df_50)
    /\ pc' = "return"
    /\ UNCHANGED <<args, exc, disk, io_log, SELECTED_COUNTRY_NAMES>>

\* the fit itself is the statistics library's: it returns the fitted model,
\* which holds its sample, or raises
RunCountryYearFe ==
    /\ pc = "call"
    /\ args.fn = "run_country_year_fe"
    /\ LET r == run_country_year_fe(args.reg_df) IN
        /\ ret' = [data |-> r.fe_df]
        /\ IF r.exc # "" THEN exc' = r.exc ELSE exc' \in {"", "fit failed"}
    /\ pc' = "return"
    /\ UNCHANGED <<args, disk, io_log, SELECTED_COUNTRY_NAMES>>

NextRegression ==
    BuildEsgIndices \/ BuildEconWide \/ BuildRegressionDataset \/ RunCountryYearFe

SpecRegression == InitRegression /\ [][NextRegression]_vars

(***************************************************************************)
(* Specification of one run of main(): Module 1 (data preparation), Module *)
(* 2 (country selection) and Module 3 (fixed-effects regression), on a     *)
(* disk that holds each raw file or not and files left by an earlier run.  *)
(* pc is the module main() is about to run; ret is the table the last      *)
(* module returned to main().                                              *)
(***************************************************************************)
MainYears == <<YearHeader(2000)>>

\* raw ESG files; the row of Kosovo is of no selected country, the last
\* row is the footer of the file
EsgRows ==
    <<RawRow("India", "IND", IND_CO2, "EN.ATM.CO2E.PC", << <<"1">> >>),
      RawRow("Nepal", "NPL", IND_CO2, "EN.ATM.CO2E.PC", << <<"3">> >>),
      RawRow("India", "IND", IND_GINI, "SI.POV.GINI", << <<"3", "1">> >>),
      RawRow("Nepal", "NPL", IND_GINI, "SI.POV.GINI", << <<"3", "0">> >>),
      RawRow("Kosovo", "XKX", IND_CO2, "EN.ATM.CO2E.PC", << <<"7">> >>),
      RawRow("Data from database: World Development Indicators", NaN, NaNText, NaN,
             << NaNText >>)>>

GovernanceRows ==
    <<RawRow("India", "IND", IND_CORRUPTION, "CC.EST", << <<"-", "1">> >>),
      RawRow("Nepal", "NPL", IND_CORRUPTION, "CC.EST", << <<"1">> >>)>>

\* with and without an indicator of the Governance category
EsgFiles ==
    {[exists |-> TRUE, table |-> [columns |-> MainYears, rows |-> GovernanceRows \o EsgRows]],
     [exists |-> TRUE, table |-> [columns |-> MainYears, rows |-> EsgRows]]}

\* with GDP growth of both countries, and of Nepal only
GdpFiles ==
    {[exists |-> TRUE, table |-> [columns |-> MainYears, rows |->
        <<RawRow("India", "IND", IND_GDP_GROWTH, "NY.GDP.MKTP.KD.ZG", << <<"6">> >>),
          RawRow("Nepal", "NPL", IND_GDP_GROWTH, "NY.GDP.MKTP.KD.ZG", << <<"2">> >>)>>]],
     [exists |-> TRUE, table |-> [columns |-> MainYears, rows |->
        <<RawRow("Nepal", "NPL", IND_GDP_GROWTH, "NY.GDP.MKTP.KD.ZG", << <<"2">> >>)>>]]}

\* with and without a row for Nepal
ClassFiles ==
    {[exists |-> TRUE, rows |->
        <<ClassRawRow("India", "IND", "South Asia", "Lower middle income", "IBRD"),
          ClassRawRow("Nepal", "NPL", "South Asia", "Low income", "IDA")>>],
     [exists |-> TRUE, rows |->
        <<ClassRawRow("India", "IND", "South Asia", "Lower middle income", "IBRD")>>]}

\* files left by an earlier run
StaleFullPanel ==
    to_csv(<<PanelRow("Nepal", "NPL", IND_GINI, 1999, <<30>>, "Social", "ESG",
                      "South Asia", "Low income"),
             PanelRow("Kosovo", "XKX", IND_GINI, 1999, <<29>>, "Social", "ESG",
                      NaN, NaN)>>)
StaleFeDataset == [exists |-> TRUE, columns |-> {}, rows |-> <<>>]
StaleTex == [exists |-> TRUE, summary |-> [data |-> <<>>]]

Init ==
    /\ pc = "module1"
    /\ args = [fn |-> "main"]
    /\ ret = <<>>
    /\ exc = ""
    /\ io_log = <<>>
    /\ SELECTED_COUNTRY_NAMES = SELECTED_COUNTRY_NAMES_literal
    /\ \E esg \in {Absent} \cup EsgFiles, gdp \in {Absent} \cup GdpFiles,
          class \in {Absent} \cup ClassFiles, full \in {Absent, StaleFullPanel},
          p50 \in {Absent, StalePanel50}, fe \in {Absent, StaleFeDataset},
          tex \in {Absent, StaleTex} :
            disk = (FILE_ESG :> esg) @@ (FILE_GDP :> gdp) @@ (FILE_CLASS :> class)
                   @@ (FILE_FULL_PANEL :> full) @@ (FILE_PANEL_50 :> p50)
                   @@ (FE_DATASET_PATH :> fe) @@ (FE_TABLE_TEX_PATH :> tex)

\* main(), lines 11-16
Module1 ==
    /\ pc = "module1"
    /\ LET r == build_merged_dataset(TRUE, "panel_full_unfiltered.csv", disk)
           banner == <<IoEvent("print", "MODULE 1", 0)>>
       IN  /\ disk' = r.disk
           /\ exc' = r.exc
           /\ IF r.exc = ""
              THEN /\ pc' = "module2"
                   /\ ret' = r.panel_long
                   /\ io_log' = io_log \o banner \o r.io \o
                        <<IoEvent("print", "Merged dataset shape", Len(r.panel_long))>>
              ELSE /\ pc' = "crashed"
                   /\ ret' = ret
                   /\ io_log' = io_log \o banner \o r.io
    /\ UNCHANGED <<args, SELECTED_COUNTRY_NAMES>>

\* main(), lines 18-23
Module2 ==
    /\ pc = "module2"
    /\ LET r == build_50_country_panel(TRUE, "panel_50_countries.csv", disk)
           banner == <<IoEvent("print", "MODULE 2", 0)>>
       IN  /\ disk' = r.disk
           /\ exc' = r.exc
           /\ IF r.exc = ""
              THEN /\ pc' = "module3"
                   /\ ret' = r.df_50
                   /\ io_log' = io_log \o banner \o r.io \o
                        <<IoEvent("print", "50-country panel shape", Len(r.df_50))>>
              ELSE /\ pc' = "crashed"
                   /\ ret' = ret
                   /\ io_log' = io_log \o banner \o r.io
    /\ UNCHANGED <<args, SELECTED_COUNTRY_NAMES>>

\* main(), lines 25-29
Module3 ==
    /\ pc = "module3"
    /\ \E fit_raises \in BOOLEAN :
        LET r == run_fe_regression(disk, fit_raises)
            banner == <<IoEvent("print", "MODULE 3", 0)>>
        IN  /\ disk' = r.disk
            /\ exc' = r.exc
            /\ pc' = IF r.exc = "" THEN "done" ELSE "crashed"
            /\ io_log' = io_log \o banner \o r.io
    /\ UNCHANGED <<args, ret, SELECTED_COUNTRY_NAMES>>

\* the environment: between two modules, the file that the next module
\* loads is removed from the data directory
RemoveArtifact ==
    /\ \/ pc = "module2" /\ disk[FILE_FULL_PANEL].exists
             /\ disk' = [disk EXCEPT ![FILE_FULL_PANEL] = Absent]
       \/ pc = "module3" /\ disk[PANEL_50_PATH].exists
             /\ disk' = [disk EXCEPT ![PANEL_50_PATH] = Absent]
    /\ UNCHANGED <<pc, args, ret, exc, io_log, SELECTED_COUNTRY_NAMES>>

Next == Module1 \/ Module2 \/ Module3 \/ RemoveArtifact

Spec == Init /\ [][Next]_vars

(***************************************************************************)
(* C1                                                                      *)
(***************************************************************************)
\* the list a call of select_50_countries filters by
ListInForce == IF args.selected_names = None THEN SELECTED_COUNTRY_NAMES
               ELSE args.selected_names[1]
ListNames == {ListInForce[i] : i \in 1..Len(ListInForce)}

\* how many times row r occurs in table t
Occurrences(r, t) == Cardinality({i \in 1..Len(t) : t[i] = r})

\* t is s with some rows left out, the others in their order
RECURSIVE IsSubsequence(_, _)
IsSubsequence(t, s) ==
    IF t = <<>> THEN TRUE
    ELSE IF s = <<>> THEN FALSE
    ELSE IF Head(t) = Head(s) THEN IsSubsequence(Tail(t), Tail(s))
    ELSE IsSubsequence(t, Tail(s))

\* C1: with a non-empty list, select_50_countries returns exactly the input
\* rows whose Country Name is in the list, unchanged and as often as in the
\* input (a missing Value does not drop a row), no row of another country,
\* and the distinct names of the result (also the count it prints) number
\* the list names that occur in the input: at most 50 for the built-in list.
C1_SelectKeepsExactlyListedRows ==
    (pc = "return" /\ args.fn = "select_50_countries" /\ ListInForce # <<>>) =>
        /\ exc = ""
        /\ IsSubsequence(ret, args.df)
        /\ \A r \in SelectRows :
              Occurrences(r, ret) =
                  (IF r.Country_Name \in ListNames THEN Occurrences(r, args.df) ELSE 0)
        /\ \A i \in 1..Len(ret) : ret[i].Country_Name \in ListNames
        /\ LET distinct == {ret[i].Country_Name : i \in 1..Len(ret)}
               matched == {n \in ListNames :
                              \E i \in 1..Len(args.df) : args.df[i].Country_Name = n}
           IN  /\ Cardinality(distinct) = Cardinality(matched)
               /\ io_log = <<IoEvent("print", "n_unique", Cardinality(matched))>>
               /\ (ListInForce = SELECTED_COUNTRY_NAMES_literal =>
                      Cardinality(distinct) <= 50)

\* the filter has kept a listed row whose Value is missing and left out a
\* row of a country that is not listed
C1_Witness ==
    /\ pc = "return"
    /\ args.fn = "select_50_countries"
    /\ exc = ""
    /\ \E i \in 1..Len(ret) : ret[i].Value = NA
    /\ \E i \in 1..Len(args.df) : args.df[i].Country_Name \notin ListNames
    /\ Len(ret) < Len(args.df)

(***************************************************************************)
(* C9                                                                      *)
(***************************************************************************)
\* a write of path is in the log
Written(path, log) == \E i \in 1..Len(log) : log[i].op = "write" /\ log[i].path = path

\* C9: a call of select_50_countries whose selection list is empty raises
\* the validation error and returns no panel, whatever the input panel; a
\* call of build_50_country_panel that reaches the filter with an empty
\* list raises it too and leaves the disk as it was: the 50-country panel
\* file is not written.
C9_EmptyListRaises ==
    [][ (pc = "call" /\ pc' = "return") =>
          /\ (args.fn = "select_50_countries" /\ ListInForce = <<>>) =>
                (exc' = "ValueError" /\ ret' = <<>> /\ disk' = disk)
          /\ (args.fn = "build_50_country_panel" /\ SELECTED_COUNTRY_NAMES = <<>>
                /\ disk[FILE_FULL_PANEL].exists) =>
                (exc' = "ValueError" /\ ret' = <<>> /\ disk' = disk
                   /\ ~Written(FILE_PANEL_50, io_log'))
      ]_vars

\* build_50_country_panel, asked to save, has raised the validation error on
\* a full panel with listed rows, and there is no 50-country panel file
C9_Witness ==
    /\ pc = "return"
    /\ args.fn = "build_50_country_panel"
    /\ args.save
    /\ SELECTED_COUNTRY_NAMES = <<>>
    /\ exc = "ValueError"
    /\ disk[FILE_FULL_PANEL].exists
    /\ Len(disk[FILE_FULL_PANEL].rows) > 0
    /\ ~disk[FILE_PANEL_50].exists

(***************************************************************************)
(* C2                                                                      *)
(***************************************************************************)
CategoryLabels == {"Environmental", "Social", "Governance", "Economic", "Other"}

\* the keywords in the order of the rule list, each with its label
KeywordOrder == <<
    <<kw_co2, "Environmental">>, <<kw_fossil, "Environmental">>,
    <<kw_renewable, "Environmental">>, <<kw_methane, "Environmental">>,
    <<kw_nitrous, "Environmental">>,
    <<kw_unemployment, "Social">>, <<kw_gini, "Social">>, <<kw_rights, "Social">>,
    <<kw_corruption, "Governance">>, <<kw_political, "Governance">>,
    <<kw_gdp, "Economic">>, <<kw_expenditure, "Economic">> >>

\* keyword kw occurs in name at offset i, letter case ignored
OccursAt(kw, name, i) == \A j \in 1..Len(kw) : lower_char(name[i + j]) = kw[j]
Occurs(kw, name) == \E i \in 0..(Len(name) - Len(kw)) : OccursAt(kw, name, i)

\* the first rule of KeywordOrder whose keyword occurs in name (0: none)
FirstRule(name) ==
    LET hits == {k \in 1..Len(KeywordOrder) : Occurs(KeywordOrder[k][1], name)} IN
    IF hits = {} THEN 0 ELSE CHOOSE k \in hits : \A h \in hits : k <= h

\* C2: assign_category returns, for every indicator name (the missing name
\* included), exactly one of the five labels: the label of the first keyword
\* of the fixed order that occurs in the name as a substring, letter case
\* ignored, and Other when no keyword occurs.
C2_AssignCategoryFirstKeyword ==
    (pc = "return" /\ args.fn = "assign_category") =>
        /\ ret \in CategoryLabels
        /\ ret = (IF FirstRule(args.indicator_name) = 0 THEN "Other"
                  ELSE KeywordOrder[FirstRule(args.indicator_name)][2])

\* a name with both "gdp" and "renewable" has been labelled Environmental
C2_Witness ==
    /\ pc = "return"
    /\ args.fn = "assign_category"
    /\ Occurs(kw_gdp, args.indicator_name)
    /\ Occurs(kw_renewable, args.indicator_name)
    /\ ret = "Environmental"

(***************************************************************************)
(* C3                                                                      *)
(***************************************************************************)
\* the year columns of the raw table: the positions whose header is the
\* header of a year (or its duplicate), with that year
IsYearColumn(header) ==
    \E y \in RawYears : header \in {YearHeader(y), DuplicateHeader(y)}
YearOfColumn(header) ==
    CHOOSE y \in RawYears : header \in {YearHeader(y), DuplicateHeader(y)}

\* the (row, year column) pairs of the raw table whose row has an indicator
\* name
NamedCells(df) ==
    {<<i, c>> \in (1..Len(df.rows)) \X (1..Len(df.columns)) :
        /\ df.rows[i].Series_Name # NaNText
        /\ IsYearColumn(df.columns[c])}

\* what the long row of raw row i and column c carries
ObservationOf(df, i, c) ==
    <<df.rows[i].Country_Name, df.rows[i].Country_Code, df.rows[i].Series_Name,
      YearOfColumn(df.columns[c]), df.rows[i].cells[c]>>

\* what a long row carries
Observation(r) == <<r.Country_Name, r.Country_Code, r.Indicator, r.Year, r.Value>>

\* C3: clean_esg_dataset and clean_gdp_dataset return one long row per
\* (raw row with an indicator name, year column) and no other row: as many
\* rows as (raw rows with an indicator name) x (year columns), none with a
\* missing indicator, and each (country name, country code, indicator,
\* year, cell value) as often among the long rows as among those pairs.
C3_OneLongRowPerRowAndYear ==
    (pc = "return" /\ args.fn \in {"clean_esg_dataset", "clean_gdp_dataset"}) =>
        LET named == {i \in 1..Len(args.df.rows) : args.df.rows[i].Series_Name # NaNText}
            years == {c \in 1..Len(args.df.columns) : IsYearColumn(args.df.columns[c])}
            cells == NamedCells(args.df)
        IN  /\ exc = ""
            /\ Len(ret) = Cardinality(named) * Cardinality(years)
            /\ \A k \in 1..Len(ret) : ret[k].Indicator # NaNText
            /\ \A k \in 1..Len(ret) :
                  Cardinality({j \in 1..Len(ret) : Observation(ret[j]) = Observation(ret[k])})
                  = Cardinality({p \in cells :
                        ObservationOf(args.df, p[1], p[2]) = Observation(ret[k])})
            /\ \A p \in cells :
                  \E k \in 1..Len(ret) :
                      Observation(ret[k]) = ObservationOf(args.df, p[1], p[2])

\* a table with two year columns, a row with an indicator name and a row
\* without has been reshaped
C3_Witness ==
    /\ pc = "return"
    /\ args.fn = "clean_esg_dataset"
    /\ Len(year_cols(args.df.columns)) = 2
    /\ \E i \in 1..Len(args.df.rows) : args.df.rows[i].Series_Name = NaNText
    /\ \E i \in 1..Len(args.df.rows) : args.df.rows[i].Series_Name # NaNText
    /\ Len(ret) = 2

(***************************************************************************)
(* C10                                                                     *)
(***************************************************************************)
\* the classification table has one row per country code
OneRowPerCode(class_clean) ==
    \A i, j \in 1..Len(class_clean) :
        class_clean[i].Country_Code = class_clean[j].Country_Code => i = j

\* a long observation with its value as a number, and the same columns of
\* a panel row
LongObservation(r) ==
    <<r.Country_Name, r.Country_Code, r.Indicator, r.Year, MeaningOf(r.Value),
      r.Category, r.Source>>
PanelObservation(r) ==
    <<r.Country_Name, r.Country_Code, r.Indicator, r.Year, r.Value,
      r.Category, r.Source>>

\* C10: with one classification row per country code, the panel has as
\* many rows as the two long tables together; every long observation (with
\* the long table's country name) is in it as often as in the long tables;
\* each panel row has the region and income group of the classification
\* row of its country code, and both missing when the code has no row.
C10_MergeKeepsEveryObservationOnce ==
    (pc = "return" /\ args.fn = "merge_to_panel" /\ OneRowPerCode(args.class_clean)) =>
        LET long == args.esg_long \o args.gdp_long IN
        /\ Len(ret) = Len(args.esg_long) + Len(args.gdp_long)
        /\ \A k \in 1..Len(long) :
              Cardinality({i \in 1..Len(ret) :
                              PanelObservation(ret[i]) = LongObservation(long[k])})
              = Cardinality({j \in 1..Len(long) :
                              LongObservation(long[j]) = LongObservation(long[k])})
        /\ \A i \in 1..Len(ret) :
              LET found == {j \in 1..Len(args.class_clean) :
                              args.class_clean[j].Country_Code = ret[i].Country_Code}
              IN  IF found = {}
                  THEN ret[i].Region = NaN /\ ret[i].Income_Group = NaN
                  ELSE \A j \in found :
                          /\ ret[i].Region = args.class_clean[j].Region
                          /\ ret[i].Income_Group = args.class_clean[j].Income_Group

\* the merge has run on rows of both streams, one of a code with a
\* classification row of another name, one of a code with none
C10_Witness ==
    /\ pc = "return"
    /\ args.fn = "merge_to_panel"
    /\ OneRowPerCode(args.class_clean)
    /\ Len(args.esg_long) > 0
    /\ Len(args.gdp_long) > 0
    /\ \E i \in 1..Len(ret) :
          /\ ret[i].Country_Name = "Bharat"
          /\ ret[i].Region = "South Asia"
    /\ \E i \in 1..Len(ret) :
          /\ ret[i].Country_Code = "XKX"
          /\ ret[i].Region = NaN

(***************************************************************************)
(* C4 (as stated): for every 50-country panel given to                     *)
(* build_regression_dataset, no two rows of the returned regression        *)
(* dataset share the same country code and year.                           *)
(***************************************************************************)
RegReturned == pc = "return" /\ args.fn = "build_regression_dataset"

C4_UniqueCodeYear ==
    RegReturned =>
        \A i, j \in 1..Len(ret.rows) :
            (ret.rows[i].country_code = ret.rows[j].country_code
             /\ ret.rows[i].Year = ret.rows[j].Year) => i = j

\* the columns the economic wide table is grouped by, as they are named in
\* the regression dataset
RegKey(r) == <<r.Country_Name, r.country_code, r.Year, r.Region, r.Income_Group>>

\* the economic rows of the panel that carry country code `code`
EconRowsOf(code) ==
    {i \in 1..Len(args.df_50) : /\ isin(args.df_50[i].Indicator, ECON_INDICATORS)
                                /\ args.df_50[i].Country_Code = code}

\* code appears under one country name, region and income group only
SingleIdentity(code) ==
    \A i, j \in EconRowsOf(code) :
        /\ args.df_50[i].Country_Name = args.df_50[j].Country_Name
        /\ args.df_50[i].Region = args.df_50[j].Region
        /\ args.df_50[i].Income_Group = args.df_50[j].Income_Group

(***************************************************************************)
(* C4 (amended): for every 50-country panel given to                       *)
(* build_regression_dataset, no two rows of the returned regression        *)
(* dataset share the same (Country Name, country_code, Year, Region,       *)
(* Income Group), the left join of the economic wide table with the ESG    *)
(* index table adds no row to the economic wide table, and no two rows     *)
(* share a country code and year when that code appears in the panel's     *)
(* economic rows under one country name, region and income group.          *)
(***************************************************************************)
C4_UniqueKeyAndNoRowAdded ==
    RegReturned =>
        /\ \A i, j \in 1..Len(ret.rows) :
              RegKey(ret.rows[i]) = RegKey(ret.rows[j]) => i = j
        /\ Len(ret.rows) = Len(build_econ_wide(args.df_50).rows)
        /\ \A i, j \in 1..Len(ret.rows) :
              (/\ ret.rows[i].country_code = ret.rows[j].country_code
               /\ ret.rows[i].Year = ret.rows[j].Year
               /\ SingleIdentity(ret.rows[i].country_code)) => i = j

\* a dataset of two rows of one code and year, one of them joined with an
\* index and the other without a match in the index table
C4_Witness ==
    /\ RegReturned
    /\ \E i, j \in 1..Len(ret.rows) :
          /\ i # j
          /\ ret.rows[i].country_code = ret.rows[j].country_code
          /\ ret.rows[i].Year = ret.rows[j].Year
          /\ ret.rows[i].GOV_index # NA
          /\ ret.rows[j].GOV_index = NA

(***************************************************************************)
(* C5: in the table returned by build_esg_indices, the ENV_index (likewise *)
(* SOC_index, GOV_index) of a (country, year) is the unweighted mean of    *)
(* the z-scores of the observations of that category for that (country,    *)
(* year), each z-score being (signed value - mean) / standard deviation    *)
(* with the mean and the sample standard deviation of the indicator's      *)
(* direction-signed values over all rows of the panel; a (country, year)   *)
(* with no observed value in a category has a missing index, never zero.   *)
(***************************************************************************)
EsgReturned == pc = "return" /\ args.fn = "build_esg_indices"

\* the sum of f over a finite set, of integers and of rationals
SumOver(S, f(_)) ==
    LET RECURSIVE sum(_)
        sum(T) == IF T = {} THEN 0
                  ELSE LET x == CHOOSE y \in T : TRUE IN f(x) + sum(T \ {x})
    IN  sum(S)

RatSumOver(S, f(_)) ==
    LET RECURSIVE sum(_)
        sum(T) == IF T = {} THEN rat_zero
                  ELSE LET x == CHOOSE y \in T : TRUE IN rat_add(f(x), sum(T \ {x}))
    IN  sum(S)

\* the observations of a category for a (country, year): the panel rows of
\* the category's indicators with a value
Observed(category, name, code, year) ==
    {i \in 1..Len(args.df_50) :
        /\ args.df_50[i].Indicator \in DOMAIN ESG_MAP
        /\ ESG_MAP[args.df_50[i].Indicator].category = category
        /\ args.df_50[i].Country_Name = name
        /\ args.df_50[i].Country_Code = code
        /\ args.df_50[i].Year = year
        /\ args.df_50[i].Value # NA}

\* all observations of the indicator of row i, whatever the country and year
Pooled(i) ==
    {j \in 1..Len(args.df_50) : /\ args.df_50[j].Indicator = args.df_50[i].Indicator
                                /\ args.df_50[j].Value # NA}

Signed(i) == args.df_50[i].Value[1] * ESG_MAP[args.df_50[i].Indicator].direction
SignedSquare(i) == Signed(i) * Signed(i)

\* n * (sum of squares) - (sum)^2 = n * (n - 1) * variance
Dispersion(i) ==
    Cardinality(Pooled(i)) * SumOver(Pooled(i), SignedSquare)
        - SumOver(Pooled(i), Signed) * SumOver(Pooled(i), Signed)

\* the z-score of row i exists: two observations at least, not all equal
Standardized(i) == Cardinality(Pooled(i)) >= 2 /\ Dispersion(i) > 0

\* z = ZCoef * sqrt(ZRad): signed value minus mean, and 1 / variance
ZCoef(i) ==
    rat(Cardinality(Pooled(i)) * Signed(i) - SumOver(Pooled(i), Signed),
        Cardinality(Pooled(i)))
ZRad(i) == rat(Cardinality(Pooled(i)) * (Cardinality(Pooled(i)) - 1), Dispersion(i))

ExpectedIndex(category, name, code, year) ==
    LET scored == {i \in Observed(category, name, code, year) : Standardized(i)}
        term(r) == rat_div(RatSumOver({i \in scored : ZRad(i) = r}, ZCoef),
                           rat(Cardinality(scored), 1))
    IN  IF scored = {} THEN NA
        ELSE <<{[coef |-> term(r), rad |-> r] :
                    r \in {q \in {ZRad(i) : i \in scored} : term(q) # rat_zero}}>>

IndexOf(row, category) ==
    CASE category = "E" -> row.ENV_index
      [] category = "S" -> row.SOC_index
      [] category = "G" -> row.GOV_index

C5_IndexIsMeanOfZScores ==
    EsgReturned =>
        \A k \in 1..Len(ret.rows) : \A category \in {"E", "S", "G"} :
            LET row == ret.rows[k] IN
            /\ IndexOf(row, category)
                 = ExpectedIndex(category, row.Country_Name, row.Country_Code, row.Year)
            /\ Observed(category, row.Country_Name, row.Country_Code, row.Year) = {}
                 => IndexOf(row, category) = NA

\* a (country, year) whose ENV_index averages the z-scores of two
\* indicators of opposite direction and that has no Social observation
C5_Witness ==
    /\ EsgReturned
    /\ \E k \in 1..Len(ret.rows) :
          LET row == ret.rows[k]
              env == Observed("E", row.Country_Name, row.Country_Code, row.Year)
          IN  /\ \E i, j \in env :
                    /\ args.df_50[i].Indicator # args.df_50[j].Indicator
                    /\ Standardized(i) /\ Standardized(j)
                    /\ ESG_MAP[args.df_50[i].Indicator].direction = -1
                    /\ ESG_MAP[args.df_50[j].Indicator].direction = 1
              /\ row.ENV_index # NA
              /\ Observed("S", row.Country_Name, row.Country_Code, row.Year) = {}
              /\ row.SOC_index = NA

(***************************************************************************)
(* C6: the sample that run_country_year_fe fits the model on is exactly    *)
(* the regression-dataset rows in which country_code, Year, gdp_growth,    *)
(* ENV_index, SOC_index and GOV_index are all present: every row with a    *)
(* missing value in one of them is dropped, no other row is.               *)
(***************************************************************************)
FeReached == pc = "return" /\ args.fn = "run_country_year_fe" /\ exc # "KeyError"

Complete(r) ==
    /\ r.country_code # NaN
    /\ r.gdp_growth # NA
    /\ r.ENV_index # NA
    /\ r.SOC_index # NA
    /\ r.GOV_index # NA

SixFields(r) ==
    <<r.country_code, r.Year, r.gdp_growth, r.ENV_index, r.SOC_index, r.GOV_index>>

Pos(op, path) == {i \in 1..Len(io_log) : io_log[i].op = op /\ io_log[i].path = path}

\* every position of later comes after a position of earlier
Precedes(earlier, later) == \A l \in later : \E e \in earlier : e < l

\* the file operations of the log, in order
FileOps ==
    LET ops == SelectSeq(io_log, LAMBDA e : e.op # "print")
    IN  [i \in 1..Len(ops) |-> <<ops[i].op, ops[i].path>>]

C7_StagesInOrderOnFreshArtifacts ==
    /\ \A m \in {"MODULE 1", "MODULE 2", "MODULE 3"} : Cardinality(Pos("print", m)) <= 1
    /\ Precedes(Pos("print", "MODULE 1"), Pos("print", "MODULE 2"))
    /\ Precedes(Pos("print", "MODULE 2"), Pos("print", "MODULE 3"))
    /\ Precedes(Pos("print", "MODULE 1"), Pos("write", FILE_FULL_PANEL))
    /\ Precedes(Pos("write", FILE_FULL_PANEL), Pos("print", "MODULE 2"))
    /\ Precedes(Pos("print", "MODULE 2"), Pos("read", FILE_FULL_PANEL))
    /\ Precedes(Pos("read", FILE_FULL_PANEL), Pos("write", FILE_PANEL_50))
    /\ Precedes(Pos("write", FILE_PANEL_50), Pos("print", "MODULE 3"))
    /\ Precedes(Pos("print", "MODULE 3"), Pos("read", FILE_PANEL_50))
    /\ Precedes(Pos("read", FILE_PANEL_50), Pos("write", FE_DATASET_PATH))
    /\ Precedes(Pos("write", FE_DATASET_PATH), Pos("write", FE_TABLE_TEX_PATH))
    /\ (pc = "module2" /\ disk[FILE_FULL_PANEL].exists)
          => disk[FILE_FULL_PANEL] = to_csv(ret)
    /\ (pc = "module3" /\ disk[FILE_PANEL_50].exists)
          => disk[FILE_PANEL_50] = to_csv(ret)
    /\ \A r \in Pos("read", FILE_FULL_PANEL) : \A w \in Pos("write", FILE_FULL_PANEL) :
          io_log[r].n = io_log[w].n
    /\ \A r \in Pos("read", FILE_PANEL_50) : \A w \in Pos("write", FILE_PANEL_50) :
          io_log[r].n = io_log[w].n
    /\ pc = "done" =>
          FileOps = << <<"read", FILE_ESG>>, <<"read", FILE_GDP>>, <<"read", FILE_CLASS>>,
                       <<"write", FILE_FULL_PANEL>>, <<"read", FILE_FULL_PANEL>>,
                       <<"write", FILE_PANEL_50>>, <<"read", FILE_PANEL_50>>,
                       <<"write", FE_DATASET_PATH>>, <<"write", FE_TABLE_TEX_PATH>> >>

\* a run that ended normally with a results table fitted on two rows, of a
\* 50-country panel smaller than the full panel
C7_Witness ==
    /\ pc = "done"
    /\ Len(disk[FE_TABLE_TEX_PATH].summary.data) = 2
    /\ \E r \in Pos("read", FILE_PANEL_50), f \in Pos("read", FILE_FULL_PANEL) :
          0 < io_log[r].n /\ io_log[r].n < io_log[f].n

(***************************************************************************)
(* C8: when the file a module of main() loads does not exist, the module   *)
(* stops with FileNotFoundError without writing anything, the files on     *)
(* disk stay as they were, and after a stop no module runs and nothing is  *)
(* written.                                                                *)
(***************************************************************************)
\* the file that the module about to run loads first is missing
MissingInput ==
    \/ pc = "module1" /\ \E f \in {FILE_ESG, FILE_GDP, FILE_CLASS} : ~disk[f].exists
    \/ pc = "module2" /\ ~disk[FILE_FULL_PANEL].exists
    \/ pc = "module3" /\ ~disk[PANEL_50_PATH].exists

Writes(log) == SelectSeq(log, LAMBDA e : e.op = "write")

C8_MissingFileStopsThePipeline ==
    [][ /\ (MissingInput /\ pc' # pc) =>
              /\ pc' = "crashed"
              /\ exc' = "FileNotFoundError"
              /\ disk' = disk
              /\ Writes(io_log') = Writes(io_log)
        /\ pc = "crashed" => (pc' = "crashed" /\ disk' = disk /\ io_log' = io_log)
      ]_vars

\* Module 3 has stopped on the missing 50-country panel file; the full
\* panel written by Module 1 is on disk and no regression dataset is
C8_Witness ==
    /\ pc = "crashed"
    /\ exc = "FileNotFoundError"
    /\ Pos("print", "MODULE 3") # {}
    /\ Pos("write", FILE_FULL_PANEL) # {}
    /\ disk[FILE_FULL_PANEL].exists
    /\ ~disk[PANEL_50_PATH].exists
    /\ ~disk[FE_DATASET_PATH].exists
    /\ Pos("write", FE_DATASET_PATH) = {}

(***************************************************************************)
(* C11 (as stated): build_econ_wide returns exactly one row for each       *)
(* distinct (country name, country code, year, region, income group)       *)
(* combination that occurs among the panel rows of the five named economic *)
(* indicators, and in that row each indicator column holds the mean of the *)
(* values of the panel rows with that combination and that indicator.      *)
(***************************************************************************)
EconReturned == pc = "return" /\ args.fn = "build_econ_wide"

Combination(r) ==
    <<r.Country_Name, r.Country_Code, r.Year, r.Region, r.Income_Group>>

\* the panel rows of the five named economic indicators
EconomicRows == {i \in 1..Len(args.df_50) : isin(args.df_50[i].Indicator, ECON_INDICATORS)}

\* those of a combination and an indicator that have a value
Valued(combination, indicator) ==
    {i \in EconomicRows : /\ Combination(args.df_50[i]) = combination
                          /\ args.df_50[i].Indicator = indicator
                          /\ args.df_50[i].Value # NA}

PanelValue(i) == args.df_50[i].Value[1]

\* the mean of the values of a combination and an indicator; missing when
\* no row has a value
MeanOf(combination, indicator) ==
    IF Valued(combination, indicator) = {} THEN NA
    ELSE <<rat(SumOver(Valued(combination, indicator), PanelValue),
               Cardinality(Valued(combination, indicator)))>>

\* the cell of a row of the wide table in the column of an indicator
CellOf(row, indicator) ==
    CASE indicator = IND_GDP_GROWTH -> row.gdp_growth
      [] indicator = IND_GDP_PER_CAPITA -> row.gdp_per_capita
      [] indicator = IND_INFLATION -> row.inflation
      [] indicator = IND_FDI -> row.fdi_inflows
      [] indicator = IND_RD -> row.RD_expenditure

\* the rows of the wide table hold the means of their combination
HoldsMeans ==
    \A k \in 1..Len(ret.rows) : \A j \in 1..Len(ECON_INDICATORS) :
        CellOf(ret.rows[k], ECON_INDICATORS[j])
          = MeanOf(Combination(ret.rows[k]), ECON_INDICATORS[j])

\* the wide table has exactly one row for each combination of combinations
OneRowForEach(combinations) ==
    /\ \A c \in combinations :
          Cardinality({k \in 1..Len(ret.rows) : Combination(ret.rows[k]) = c}) = 1
    /\ \A k \in 1..Len(ret.rows) : Combination(ret.rows[k]) \in combinations

C11_OneRowPerCombination ==
    EconReturned =>
        /\ OneRowForEach({Combination(args.df_50[i]) : i \in EconomicRows})
        /\ HoldsMeans

\* a combination with no missing component
Complete5(c) == \A n \in 1..2 : c[n] # NaN /\ c[4] # NaN /\ c[5] # NaN

\* some row of the combination, of one of the five indicators, has a value
HasValue(c) == \E j \in 1..Len(ECON_INDICATORS) : Valued(c, ECON_INDICATORS[j]) # {}

(***************************************************************************)
(* C11 (amended): build_econ_wide returns exactly one row for each         *)
(* distinct (country name, country code, year, region, income group)       *)
(* combination that has no missing component and at least one value among  *)
(* the panel rows of the five named economic indicators, and no other row; *)
(* in that row each indicator column holds the mean of the values present  *)
(* in the panel rows with that combination and that indicator, and is      *)
(* missing when there is none.                                             *)
(***************************************************************************)
C11_OneRowPerValuedCombination ==
    EconReturned =>
        /\ OneRowForEach({c \in {Combination(args.df_50[i]) : i \in EconomicRows} :
                              Complete5(c) /\ HasValue(c)})
        /\ HoldsMeans

\* a wide table with a cell that averages two rows of different values,
\* of a panel with a combination that has no value or no region
C11_Witness ==
    /\ EconReturned
    /\ \E k \in 1..Len(ret.rows) :
          \E i, j \in Valued(Combination(ret.rows[k]), IND_GDP_GROWTH) :
              PanelValue(i) # PanelValue(j)
    /\ \E i \in EconomicRows :
          ~(Complete5(Combination(args.df_50[i])) /\ HasValue(Combination(args.df_50[i])))

(***************************************************************************)
(* C12: the two category tables agree: assign_category gives each of the   *)
(* 11 indicator names of ESG_MAP the Category of the name's ESG_MAP        *)
(* category (E: Environmental, S: Social, G: Governance), and              *)
(* assign_economic_category labels each of the 5 names of ECON_INDICATORS  *)
(* Economic.                                                               *)
(***************************************************************************)
CategoryOfLetter == ("E" :> "Environmental") @@ ("S" :> "Social") @@ ("G" :> "Governance")

C12_CategoryTablesAgree ==
    /\ Cardinality(DOMAIN ESG_MAP) = 11
    /\ Cardinality({ECON_INDICATORS[j] : j \in 1..Len(ECON_INDICATORS)}) = 5
    /\ (pc = "return" /\ args.fn = "assign_category"
          /\ args.indicator_name \in DOMAIN ESG_MAP)
          => ret = CategoryOfLetter[ESG_MAP[args.indicator_name].category]
    /\ (pc = "return" /\ args.fn = "assign_economic_category"
          /\ isin(args.indicator_name, ECON_INDICATORS))
          => ret = "Economic"

\* assign_category has labelled the rights score, whose name starts with
\* "Economic", Social
C12_Witness ==
    /\ pc = "return"
    /\ args.fn = "assign_category"
    /\ args.indicator_name = IND_RIGHTS
    /\ ESG_MAP[IND_RIGHTS].category = "S"
    /\ ret = "Social"

====
